---- MODULE Spec2Model ----
(***************************************************************************)
(* A model of lld/wasm/Writer.cpp of cdt-lld: the contract dispatchers it  *)
(* synthesises as WebAssembly bytecode (createDispatchFunction,            *)
(* createCallDispatchFunction) and the memory layout (layoutMemory).       *)
(*                                                                         *)
(* Representation of machine integers.  TLC's integers are 32-bit signed,  *)
(* so a 64-bit value is kept as its 13 base-32 digits, most significant    *)
(* first: twelve 5-bit digits for bits 63..4 and one 4-bit digit for bits  *)
(* 3..0.  This is the positional form the EOSIO name encoding itself uses. *)
(* A 32-bit unsigned value is kept as two 16-bit limbs <<hi, lo>>.         *)
(***************************************************************************)
EXTENDS Integers, Sequences, FiniteSets, TLC

VARIABLES
  objectFiles,   \* symtab->objectFiles: the declarations of each object file
  symbols,       \* the function symbols symtab->find can return, with their indexes
  stackCanary,   \* config->stackCanary
  dataEndVA,     \* the virtual address layoutMemory gave __data_end
  phase,         \* where the link / the run of the emitted function stands
  entryBody,     \* the body createDispatchFunction installed in WasmSym::entryFunc
  syncCallBody,  \* the body createCallDispatchFunction installed in WasmSym::syncCallFunc
  vm,            \* the outcome of executing an emitted body on one input
  layout,        \* the configuration and the outcome of layoutMemory
  writer         \* the Writer's other members: its inputs and what its steps made of them

vars == <<objectFiles, symbols, stackCanary, dataEndVA, phase, entryBody,
          syncCallBody, vm, layout, writer>>

----------------------------------------------------------------------------
(* Opcodes and error codes, Writer.cpp:700-730.                            *)

OPCODE_CALL == 16
OPCODE_IF == 4
OPCODE_ELSE == 5
OPCODE_END == 11
OPCODE_RETURN == 15
OPCODE_GET_LOCAL == 32
OPCODE_SET_LOCAL == 33
OPCODE_GET_GLOBAL == 35
OPCODE_SET_GLOBAL == 36
OPCODE_I32_LOAD == 40
OPCODE_I32_CONST == 65
OPCODE_I32_ADD == 106
OPCODE_I64_EQ == 81
OPCODE_I64_NE == 82
OPCODE_I64_CONST == 66
OPCODE_I64_STORE == 55
OPCODE_I64_LOAD == 41

\* The block type byte 0x40 ("none") written after every IF.
BLOCK_NONE == 64

\* 8000000000000000000 .. +2 in digit form (bits 63..4 as twelve base-32
\* digits, bits 3..0 as the last digit).
EOSIO_ERROR_NO_ACTION == <<13, 28, 2, 27, 11, 7, 9, 27, 4, 0, 0, 0, 0>>
EOSIO_ERROR_ONERROR == <<13, 28, 2, 27, 11, 7, 9, 27, 4, 0, 0, 0, 1>>
EOSIO_CANARY_FAILURE == <<13, 28, 2, 27, 11, 7, 9, 27, 4, 0, 0, 0, 2>>

\* 0, -10000 and -10001 as 64-bit two's complement in digit form.
SYNC_CALL_EXECUTED == <<0, 0, 0, 0, 0, 0, 0, 0, 0, 0, 0, 0, 0>>
SYNC_CALL_UNSUPPORTED_HEADER_VERSION == <<31, 31, 31, 31, 31, 31, 31, 31, 31, 31, 12, 15, 0>>
SYNC_CALL_UNKNOWN_FUNCTION == <<31, 31, 31, 31, 31, 31, 31, 31, 31, 31, 12, 14, 15>>

----------------------------------------------------------------------------
(* Strings.  TLC gives Len and SubSeq on strings, which is enough for      *)
(* std::string::find and substr.                                           *)

\* std::string::npos: find returns it when the character is absent; npos + 1
\* wraps to 0 and substr(0, npos) is the whole string.
npos == -1

Min(a, b) == IF a <= b THEN a ELSE b
Max(a, b) == IF a >= b THEN a ELSE b

\* s.find(ch): the 0-based position of the first ch in s.
find(s, ch) ==
  IF \E i \in 1..Len(s) : SubSeq(s, i, i) = ch
  THEN (CHOOSE i \in 1..Len(s) :
          /\ SubSeq(s, i, i) = ch
          /\ \A j \in 1..(i - 1) : SubSeq(s, j, j) # ch) - 1
  ELSE npos

\* s.substr(pos, count), count = npos meaning "to the end".
substr(s, pos, count) ==
  SubSeq(s, pos + 1, IF count = npos THEN Len(s) ELSE Min(Len(s), pos + count))

\* The characters of the declarations in ASCII order, for std::map's key order.
AsciiOrder == "*.0123456789:ABCDEFGHIJKLMNOPQRSTUVWXYZ_abcdefghijklmnopqrstuvwxyz"

CharOrd(c) == find(AsciiOrder, c)

\* a < b as std::string compares: lexicographic on the characters.
RECURSIVE StrLess(_, _)
StrLess(a, b) ==
  IF Len(b) = 0 THEN FALSE
  ELSE IF Len(a) = 0 THEN TRUE
  ELSE IF SubSeq(a, 1, 1) # SubSeq(b, 1, 1)
       THEN CharOrd(SubSeq(a, 1, 1)) < CharOrd(SubSeq(b, 1, 1))
  ELSE StrLess(SubSeq(a, 2, Len(a)), SubSeq(b, 2, Len(b)))

----------------------------------------------------------------------------
(* eosio::cdt::string_to_name: base-32 alphabet, five bits per character,  *)
(* twelve characters from the top bit down, a 13th in the low four bits.   *)

NameAlphabet == ".12345abcdefghijklmnopqrstuvwxyz"

\* A character outside the alphabet encodes as 0, like '.'.
char_to_symbol(c) ==
  LET p == find(NameAlphabet, c) IN IF p = npos THEN 0 ELSE p

string_to_name(str) ==
  [i \in 1..13 |->
     IF i > Len(str) THEN 0
     ELSE IF i = 13 THEN char_to_symbol(SubSeq(str, i, i)) % 16
     ELSE char_to_symbol(SubSeq(str, i, i))]

\* A small non-negative integer as a 64-bit value.
ToU64(n) ==
  [i \in 1..13 |->
     IF i = 13 THEN n % 16
     ELSE IF i >= 7 THEN (n \div (16 * 32 ^ (12 - i))) % 32
     ELSE 0]

----------------------------------------------------------------------------
(* LEB128, as writeUleb128 / writeU8 write it and as a WebAssembly decoder *)
(* reads it.                                                               *)

RECURSIVE EncodeULEB128(_)
EncodeULEB128(v) ==
  IF v < 128 THEN <<v>> ELSE <<(v % 128) + 128>> \o EncodeULEB128(v \div 128)

writeUleb128(v) == EncodeULEB128(v)

\* writeU8 as it would be were it to write a ULEB128.
writeU8_AsUleb128(v) == EncodeULEB128(v)

\* writeU8 keeps the low eight bits of its argument.
writeU8(v) == <<v % 256>>

\* The immediate is complete when its last byte has no continuation bit.
LebComplete(bytes) ==
  /\ Len(bytes) > 0
  /\ bytes[Len(bytes)] < 128
  /\ \A i \in 1..(Len(bytes) - 1) : bytes[i] >= 128

RECURSIVE LebPayload(_)
LebPayload(bytes) ==
  IF Len(bytes) = 0 THEN 0
  ELSE (bytes[1] % 128) + 128 * LebPayload(Tail(bytes))

DecodeULEB128(bytes) == LebPayload(bytes)

\* Signed LEB128: bit 6 of the last byte is the sign.
DecodeSLEB128(bytes) ==
  IF bytes[Len(bytes)] % 128 >= 64
  THEN LebPayload(bytes) - 128 ^ Len(bytes)
  ELSE LebPayload(bytes)

----------------------------------------------------------------------------
(* The symbol table as the dispatcher emitters use it.                     *)

\* symtab->find(name): the symbol, or NoSym for a null pointer.
NoSym == "<null>"

symtab_find(name) == IF name \in DOMAIN symbols.index THEN name ELSE NoSym

getFunctionIndex(sym) == symbols.index[sym]

\* symtab->getSymbols().size()
getSymbolsSize == symbols.size

\* The index of global __stack_canary.  __data_end is a data symbol; the
\* emitter reads its "global index" through a GlobalSymbol pointer and gets
\* the address layoutMemory stored in it.
StackCanaryGlobalIndex == 1

DataEndGlobalIndex == dataEndVA

----------------------------------------------------------------------------
(* Instructions: <<opcode, immediate bytes>>; a 64-bit constant keeps the  *)
(* value encodeSLEB128 was given.                                          *)

Ins0(op) == <<op, <<>>>>
InsU(op, v) == <<op, writeUleb128(v)>>
InsIf == <<OPCODE_IF, writeU8(BLOCK_NONE)>>
InsI64Const(v) == <<OPCODE_I64_CONST, v>>
InsMem(op, align, offset) == <<op, <<writeUleb128(align), writeUleb128(offset)>>>>

RECURSIVE Rep(_, _)
Rep(x, n) == IF n <= 0 THEN <<>> ELSE <<x>> \o Rep(x, n - 1)

\* The declarations of all object files in iteration order.
RECURSIVE AllDecls(_, _)
AllDecls(files, field) ==
  IF files = <<>> THEN <<>>
  ELSE Head(files)[field] \o AllDecls(Tail(files), field)

\* FirstOccurrences as it would be were has_dispatched not consulted.
FirstOccurrences_NoDedup(decls, seen) == decls

\* has_dispatched.insert(x).second: keep the first occurrence of each string.
RECURSIVE FirstOccurrences(_, _)
FirstOccurrences(decls, seen) ==
  IF decls = <<>> THEN <<>>
  ELSE IF Head(decls) \in seen THEN FirstOccurrences(Tail(decls), seen)
  ELSE <<Head(decls)>> \o FirstOccurrences(Tail(decls), seen \cup {Head(decls)})

----------------------------------------------------------------------------
(* Writer::createDispatchFunction                                          *)

create_if(str, need_else) ==
  (IF need_else THEN <<Ins0(OPCODE_ELSE)>> ELSE <<>>) \o
  << InsI64Const(string_to_name(substr(str, 0, find(str, ":")))),
     InsU(OPCODE_GET_LOCAL, 2), Ins0(OPCODE_I64_EQ), InsIf,
     InsU(OPCODE_GET_LOCAL, 0), InsU(OPCODE_GET_LOCAL, 1),
     InsU(OPCODE_CALL, getFunctionIndex(substr(str, find(str, ":") + 1, npos))) >>

\* create_if over a list, need_else carried from one call to the next.
RECURSIVE IfChain(_, _)
IfChain(decls, need_else) ==
  IF decls = <<>> THEN <<>>
  ELSE create_if(Head(decls), need_else) \o IfChain(Tail(decls), TRUE)

\* The actions the dispatcher tests, in emission order.
DispatchedActions == FirstOccurrences(AllDecls(objectFiles, "actions"), {})

\* The call of post_dispatch(receiver, code, action).
PostDispatchCall ==
  << InsU(OPCODE_GET_LOCAL, 0), InsU(OPCODE_GET_LOCAL, 1), InsU(OPCODE_GET_LOCAL, 2),
     InsU(OPCODE_CALL, getFunctionIndex("post_dispatch")) >>

\* assert_sym && assert_idx < symtab->getSymbols().size()
AssertUsable ==
  /\ symtab_find("eosio_assert_code") # NoSym
  /\ getFunctionIndex("eosio_assert_code") < getSymbolsSize

\* assert_idx, UINT32_MAX when the symbol is missing (kept as -1).
assert_idx ==
  IF symtab_find("eosio_assert_code") # NoSym
  THEN getFunctionIndex("eosio_assert_code") ELSE -1

create_action_dispatch ==
  LET acts == DispatchedActions
      act_cnt == Len(acts)
  IN IfChain(acts, FALSE)
     \o (IF act_cnt > 0 THEN <<Ins0(OPCODE_ELSE)>> ELSE <<>>)
     \o << InsU(OPCODE_GET_LOCAL, 0), InsI64Const(string_to_name("eosio")),
           Ins0(OPCODE_I64_NE), InsIf,
           InsU(OPCODE_I32_CONST, 0), InsI64Const(EOSIO_ERROR_NO_ACTION),
           InsU(OPCODE_CALL, assert_idx) >>
     \o (IF symtab_find("post_dispatch") # NoSym
         THEN <<Ins0(OPCODE_ELSE)>> \o PostDispatchCall ELSE <<>>)
     \o <<Ins0(OPCODE_END)>>
     \o Rep(Ins0(OPCODE_END), act_cnt)

----------------------------------------------------------------------------
(* create_notify_dispatch                                                  *)

\* The notifications registered, in first-seen order.
DispatchedNotify == FirstOccurrences(AllDecls(objectFiles, "notify"), {})

\* <code_name>::<action>:<function> split at the first ':'.
NotifyCodeName(snotif) == substr(snotif, 0, find(snotif, ":"))
NotifyRest(snotif) == substr(snotif, find(snotif, ":") + 2, npos)

\* notify_handlers[code_name]: the rests pushed for that code, in order.
RECURSIVE HandlersOf(_, _)
HandlersOf(code_name, notifs) ==
  IF notifs = <<>> THEN <<>>
  ELSE (IF NotifyCodeName(Head(notifs)) = code_name
        THEN <<NotifyRest(Head(notifs))>> ELSE <<>>)
       \o HandlersOf(code_name, Tail(notifs))

notify_handlers(code_name) == HandlersOf(code_name, DispatchedNotify)

\* The keys of the std::map in its iteration order (ascending strings).
RECURSIVE SortStrings(_)
SortStrings(S) ==
  IF S = {} THEN <<>>
  ELSE LET m == CHOOSE x \in S : \A y \in S \ {x} : StrLess(x, y)
       IN <<m>> \o SortStrings(S \ {m})

NotifyCodeNames ==
  SortStrings({NotifyCodeName(DispatchedNotify[i]) : i \in 1..Len(DispatchedNotify)})

\* The keys the concrete loop writes a test for: every key but "*".
ConcreteCodeNames == SelectSeq(NotifyCodeNames, LAMBDA c : c # "*")

has_onerror_handler ==
  \E i \in 1..Len(notify_handlers("eosio")) :
     LET notif1 == notify_handlers("eosio")[i]
     IN substr(notif1, 0, find(notif1, ":")) = "onerror"

\* The guard written when no handler is registered for eosio::onerror.
OnerrorGuard ==
  << InsI64Const(string_to_name("eosio")), InsU(OPCODE_GET_LOCAL, 1),
     Ins0(OPCODE_I64_EQ), InsIf,
     InsI64Const(string_to_name("onerror")), InsU(OPCODE_GET_LOCAL, 2),
     Ins0(OPCODE_I64_EQ), InsIf,
     InsU(OPCODE_I32_CONST, 0), InsI64Const(EOSIO_ERROR_ONERROR),
     InsU(OPCODE_CALL, assert_idx),
     Ins0(OPCODE_END), Ins0(OPCODE_END) >>

\* One iteration of the loop over the concrete code names.
ConcreteCodeBlock(code_name, notify0_need_else) ==
  (IF notify0_need_else THEN <<Ins0(OPCODE_ELSE)>> ELSE <<>>)
  \o << InsI64Const(string_to_name(code_name)), InsU(OPCODE_GET_LOCAL, 1),
        Ins0(OPCODE_I64_EQ), InsIf >>
  \o IfChain(notify_handlers(code_name), FALSE)
  \o Rep(Ins0(OPCODE_END), Len(notify_handlers(code_name)))

RECURSIVE ConcreteCodeBlocks(_, _)
ConcreteCodeBlocks(names, notify0_need_else) ==
  IF names = <<>> THEN <<>>
  ELSE ConcreteCodeBlock(Head(names), notify0_need_else)
       \o ConcreteCodeBlocks(Tail(names), TRUE)

create_notify_dispatch ==
  LET has_written == Len(ConcreteCodeNames) > 0
  IN (IF ~has_onerror_handler THEN OnerrorGuard ELSE <<>>)
     \o ConcreteCodeBlocks(ConcreteCodeNames, FALSE)
     \o (IF has_written THEN <<Ins0(OPCODE_ELSE)>> ELSE <<>>)
     \o IfChain(notify_handlers("*"), FALSE)
     \o (IF symtab_find("post_dispatch") # NoSym
         THEN <<Ins0(OPCODE_ELSE)>> \o PostDispatchCall \o <<Ins0(OPCODE_END)>>
         ELSE <<>>)
     \o Rep(Ins0(OPCODE_END), Len(notify_handlers("*")))

----------------------------------------------------------------------------
(* The parts both dispatchers share.                                       *)

\* call __wasm_call_ctors, when the symbol exists and its index is not 0.
CtorsCall ==
  IF /\ symtab_find("__wasm_call_ctors") # NoSym
     /\ getFunctionIndex("__wasm_call_ctors") # 0
  THEN <<InsU(OPCODE_CALL, getFunctionIndex("__wasm_call_ctors"))>>
  ELSE <<>>

\* The canary prologue: the index of current_time goes out through writeU8,
\* the address through writeUleb128.
CanaryPrologue ==
  IF stackCanary
  THEN << <<OPCODE_CALL, writeU8(getFunctionIndex("current_time"))>>,
          InsU(OPCODE_SET_GLOBAL, StackCanaryGlobalIndex),
          InsU(OPCODE_I32_CONST, DataEndGlobalIndex + 8),
          InsU(OPCODE_GET_GLOBAL, StackCanaryGlobalIndex),
          InsMem(OPCODE_I64_STORE, 3, 0) >>
  ELSE <<>>

CanaryEpilogue ==
  IF stackCanary
  THEN << InsU(OPCODE_GET_GLOBAL, StackCanaryGlobalIndex),
          InsU(OPCODE_I32_CONST, DataEndGlobalIndex + 8),
          InsMem(OPCODE_I64_LOAD, 3, 0),
          Ins0(OPCODE_I64_NE), InsIf,
          InsU(OPCODE_I32_CONST, 0), InsI64Const(EOSIO_CANARY_FAILURE),
          InsU(OPCODE_CALL, getFunctionIndex("eosio_assert_code")),
          Ins0(OPCODE_END) >>
  ELSE <<>>

\* call __cxa_finalize(NULL), when the symbol exists with a usable index.
FinalizeCall ==
  IF /\ symtab_find("__cxa_finalize") # NoSym
     /\ getFunctionIndex("__cxa_finalize") # 0
     /\ getFunctionIndex("__cxa_finalize") < getSymbolsSize
  THEN << InsU(OPCODE_I32_CONST, 0),
          InsU(OPCODE_CALL, getFunctionIndex("__cxa_finalize")) >>
  ELSE <<>>

\* The instructions of BodyContent after "num locals".
DispatchBody ==
  LET pre_sym == symtab_find("pre_dispatch")
  IN << InsU(OPCODE_GET_LOCAL, 0),
        InsU(OPCODE_CALL, getFunctionIndex("eosio_set_contract_name")) >>
     \o CtorsCall
     \o CanaryPrologue
     \o (IF pre_sym # NoSym
         THEN << InsU(OPCODE_GET_LOCAL, 0), InsU(OPCODE_GET_LOCAL, 1),
                 InsU(OPCODE_GET_LOCAL, 2),
                 InsU(OPCODE_CALL, getFunctionIndex("pre_dispatch")), InsIf >>
         ELSE <<>>)
     \o << InsU(OPCODE_GET_LOCAL, 0), InsU(OPCODE_GET_LOCAL, 1),
           Ins0(OPCODE_I64_EQ), InsIf >>
     \o create_action_dispatch
     \o <<Ins0(OPCODE_ELSE)>>
     \o create_notify_dispatch
     \o <<Ins0(OPCODE_END)>>
     \o CanaryEpilogue
     \o FinalizeCall
     \o (IF pre_sym # NoSym THEN <<Ins0(OPCODE_END)>> ELSE <<>>)
     \o <<Ins0(OPCODE_END)>>

----------------------------------------------------------------------------
(* Writer::createCallDispatchFunction                                      *)

\* eosio::cdt::to_hash_id: a 64-bit hash of the call name.  Distinct names
\* may share a hash; here the characters are folded into 0..HashRange-1.
HashRange == 16

RECURSIVE HashFold(_, _)
HashFold(str, h) ==
  IF Len(str) = 0 THEN h
  ELSE HashFold(SubSeq(str, 2, Len(str)),
                (h * 3 + CharOrd(SubSeq(str, 1, 1))) % HashRange)

to_hash_id(str) == ToU64(HashFold(str, 0))

\* create_if of createCallDispatchFunction.
call_create_if(call_name, need_else) ==
  (IF need_else THEN <<Ins0(OPCODE_ELSE)>> ELSE <<>>) \o
  << InsU(OPCODE_GET_LOCAL, 2),
     InsU(OPCODE_CALL, getFunctionIndex("__eos_get_sync_call_data_")),
     InsU(OPCODE_SET_LOCAL, 3),
     InsU(OPCODE_GET_LOCAL, 3),
     InsU(OPCODE_CALL, getFunctionIndex("__eos_get_sync_call_data_header_")),
     InsU(OPCODE_SET_LOCAL, 4),
     InsU(OPCODE_GET_LOCAL, 4), InsMem(OPCODE_I32_LOAD, 2, 0),
     InsIf, InsI64Const(SYNC_CALL_UNSUPPORTED_HEADER_VERSION), Ins0(OPCODE_RETURN),
     Ins0(OPCODE_END),
     InsU(OPCODE_GET_LOCAL, 4), InsU(OPCODE_I32_CONST, 8), Ins0(OPCODE_I32_ADD),
     InsMem(OPCODE_I64_LOAD, 3, 0),
     InsI64Const(to_hash_id(substr(call_name, 0, find(call_name, ":")))),
     Ins0(OPCODE_I64_EQ), InsIf,
     InsU(OPCODE_GET_LOCAL, 0), InsU(OPCODE_GET_LOCAL, 1),
     InsU(OPCODE_GET_LOCAL, 2), InsU(OPCODE_GET_LOCAL, 3),
     InsU(OPCODE_CALL,
          getFunctionIndex(substr(call_name, find(call_name, ":") + 1, npos))) >>

RECURSIVE CallIfChain(_, _)
CallIfChain(decls, need_else) ==
  IF decls = <<>> THEN <<>>
  ELSE call_create_if(Head(decls), need_else) \o CallIfChain(Tail(decls), TRUE)

\* The sync calls the dispatcher tests, in emission order.
DispatchedCalls == FirstOccurrences(AllDecls(objectFiles, "calls"), {})

create_call_dispatch ==
  LET call_cnt == Len(DispatchedCalls)
  IN CallIfChain(DispatchedCalls, FALSE)
     \o << Ins0(OPCODE_ELSE), InsI64Const(SYNC_CALL_UNKNOWN_FUNCTION),
           Ins0(OPCODE_RETURN) >>
     \o Rep(Ins0(OPCODE_END), call_cnt)

\* The instructions of BodyContent after the declaration of the two locals.
CallDispatchBody ==
  << InsU(OPCODE_GET_LOCAL, 1),
     InsU(OPCODE_CALL, getFunctionIndex("eosio_set_contract_name")) >>
  \o CtorsCall
  \o CanaryPrologue
  \o create_call_dispatch
  \o CanaryEpilogue
  \o FinalizeCall
  \o << InsI64Const(SYNC_CALL_EXECUTED), Ins0(OPCODE_END) >>

\* fatal("internal error, current_time not found")
CanaryFatal == stackCanary /\ symtab_find("current_time") = NoSym

\* The link dies in createDispatchFunction.
DispatchFatal == CanaryFatal \/ ~AssertUsable

\* The link dies in createCallDispatchFunction: no current_time for the
\* canary, or call_cnt == 0.
CallDispatchFatal == CanaryFatal \/ Len(DispatchedCalls) = 0

----------------------------------------------------------------------------
(* Block structure of an instruction sequence.                             *)

\* The stack of open blocks, innermost last, each "func", "if" or "else" (an
\* IF whose ELSE has been seen).  Malformed marks an ELSE outside an IF or
\* twice in one IF, and an instruction after the function block is closed.
Malformed == <<"malformed">>

NestStep(op, open) ==
  IF open = Malformed \/ open = <<>> THEN Malformed
  ELSE LET top == open[Len(open)]
           rest == SubSeq(open, 1, Len(open) - 1)
       IN IF op = OPCODE_IF THEN Append(open, "if")
          ELSE IF op = OPCODE_ELSE
               THEN IF top = "if" THEN Append(rest, "else") ELSE Malformed
          ELSE IF op = OPCODE_END THEN rest
          ELSE open

\* The open blocks after instructions lo..hi, from the open blocks before.
RECURSIVE NestFold(_, _, _, _)
NestFold(body, lo, hi, open) ==
  IF lo > hi THEN open
  ELSE IF lo = hi THEN NestStep(body[lo][1], open)
  ELSE LET mid == (lo + hi) \div 2
           left == NestFold(body, lo, mid, open)
       IN IF left = Malformed THEN Malformed
          ELSE NestFold(body, mid + 1, hi, left)

\* The blocks still open at the end of the body.
OpenBlocks(body) == NestFold(body, 1, Len(body), <<"func">>)

\* Every IF is closed by its own END, with at most one ELSE between, and the
\* last instruction is the END of the function block.
WellNested(body) == OpenBlocks(body) = <<>>

----------------------------------------------------------------------------
(* Execution of an emitted body.  The functions it calls are the host's and *)
(* the contract's; what they return and what they do to memory is the       *)
(* environment env of the run:                                              *)
(*   pre_ret      what pre_dispatch returns (i32)                           *)
(*   now          what current_time returns (i64)                           *)
(*   tamper       the addresses a handler overwrites                        *)
(*   data, header what __eos_get_sync_call_data_ and                        *)
(*                __eos_get_sync_call_data_header_ return (i32)             *)
(*   memBytes     the size of linear memory                                 *)

\* The function with index idx.
FuncName(idx) ==
  IF \E n \in DOMAIN symbols.index : symbols.index[n] = idx
  THEN CHOOSE n \in DOMAIN symbols.index : symbols.index[n] = idx
  ELSE NoSym

\* The functions the sync-call dispatcher calls as targets:
\* target(sender, receiver, data_size, data).
IsSyncTarget(name) ==
  \E i \in 1..Len(AllDecls(objectFiles, "calls")) :
     LET c == AllDecls(objectFiles, "calls")[i]
     IN substr(c, find(c, ":") + 1, npos) = name

\* Parameters of each function.
Arity(name) ==
  CASE name = "eosio_set_contract_name" -> 1
    [] name = "__wasm_call_ctors" -> 0
    [] name = "current_time" -> 0
    [] name = "pre_dispatch" -> 3
    [] name = "post_dispatch" -> 3
    [] name = "eosio_assert_code" -> 2
    [] name = "__cxa_finalize" -> 1
    [] name = "__eos_get_sync_call_data_" -> 1
    [] name = "__eos_get_sync_call_data_header_" -> 1
    [] IsSyncTarget(name) -> 4
    [] OTHER -> 2

HostFunctions ==
  {"eosio_set_contract_name", "__wasm_call_ctors", "current_time", "pre_dispatch",
   "post_dispatch", "eosio_assert_code", "__cxa_finalize",
   "__eos_get_sync_call_data_", "__eos_get_sync_call_data_header_"}

\* The functions generated for actions, notifications and sync calls.
IsHandler(name) == name \notin HostFunctions

\* What a call leaves on the stack.
CallResult(name, env) ==
  CASE name = "current_time" -> <<env.now>>
    [] name = "pre_dispatch" -> <<env.pre_ret>>
    [] name = "__eos_get_sync_call_data_" -> <<env.data>>
    [] name = "__eos_get_sync_call_data_header_" -> <<env.header>>
    [] OTHER -> <<>>

\* Memory after a call: a handler may overwrite the cells of env.tamper.
TamperValue == ToU64(99)

MemAfterCall(name, mem, env) ==
  IF IsHandler(name)
  THEN [a \in DOMAIN mem \cup env.tamper |->
          IF a \in env.tamper THEN TamperValue ELSE mem[a]]
  ELSE mem

\* A memory cell never written reads as zero.
LoadI64(mem, addr) == IF addr \in DOMAIN mem THEN mem[addr] ELSE ToU64(0)
LoadI32(mem, addr) == IF addr \in DOMAIN mem THEN mem[addr] ELSE 0

\* An access of n bytes at addr (an i32, unsigned in the machine: a negative
\* value here is an address of 2^31 or more) lies inside memory.
InBounds(addr, n, env) == addr >= 0 /\ addr + n <= env.memBytes

\* Scanning instructions lo..hi at relative depth d for the END (or, when
\* stopAtElse, the ELSE) of the enclosing block: where it is, or the depth
\* after hi when it is not there.
RECURSIVE Scan(_, _, _, _, _)
Scan(body, lo, hi, d, stopAtElse) ==
  IF lo = hi
  THEN LET op == body[lo][1]
       IN IF op = OPCODE_IF THEN [found |-> FALSE, at |-> 0, depth |-> d + 1]
          ELSE IF op = OPCODE_END
               THEN IF d = 0 THEN [found |-> TRUE, at |-> lo, depth |-> d]
                    ELSE [found |-> FALSE, at |-> 0, depth |-> d - 1]
          ELSE IF op = OPCODE_ELSE /\ d = 0 /\ stopAtElse
               THEN [found |-> TRUE, at |-> lo, depth |-> d]
          ELSE [found |-> FALSE, at |-> 0, depth |-> d]
  ELSE LET mid == (lo + hi) \div 2
           left == Scan(body, lo, mid, d, stopAtElse)
       IN IF left.found THEN left
          ELSE Scan(body, mid + 1, hi, left.depth, stopAtElse)

\* From instruction i on, the first ELSE or END of the enclosing block;
\* Len(body) + 1 when there is none.
BlockBoundary(body, i, depth, stopAtElse) ==
  IF i > Len(body) THEN i
  ELSE LET r == Scan(body, i, Len(body), depth, stopAtElse)
       IN IF r.found THEN r.at ELSE Len(body) + 1

Top(stack) == stack[Len(stack)]
Pop(stack, n) == SubSeq(stack, 1, Len(stack) - n)
TopN(stack, n) == SubSeq(stack, Len(stack) - n + 1, Len(stack))

Returned(st) ==
  [st EXCEPT !.status = "returned",
             !.ret = IF st.stack = <<>> THEN <<>> ELSE <<Top(st.stack)>>]

\* One instruction.
Step(body, st, env) ==
  LET ins == body[st.pc]
      op == ins[1]
      imm == ins[2]
      next == [st EXCEPT !.pc = st.pc + 1]
  IN CASE op = OPCODE_GET_LOCAL ->
            [next EXCEPT !.stack = Append(st.stack, st.locals[DecodeULEB128(imm) + 1])]
       [] op = OPCODE_SET_LOCAL ->
            [next EXCEPT !.stack = Pop(st.stack, 1),
                         !.locals[DecodeULEB128(imm) + 1] = Top(st.stack)]
       [] op = OPCODE_GET_GLOBAL ->
            [next EXCEPT !.stack = Append(st.stack, st.globals[DecodeULEB128(imm)])]
       [] op = OPCODE_SET_GLOBAL ->
            [next EXCEPT !.stack = Pop(st.stack, 1),
                         !.globals[DecodeULEB128(imm)] = Top(st.stack)]
       [] op = OPCODE_I32_CONST ->
            [next EXCEPT !.stack = Append(st.stack, DecodeSLEB128(imm))]
       [] op = OPCODE_I64_CONST ->
            [next EXCEPT !.stack = Append(st.stack, imm)]
       [] op = OPCODE_I32_ADD ->
            [next EXCEPT !.stack =
               Append(Pop(st.stack, 2), TopN(st.stack, 2)[1] + TopN(st.stack, 2)[2])]
       [] op = OPCODE_I64_EQ ->
            [next EXCEPT !.stack =
               Append(Pop(st.stack, 2),
                      IF TopN(st.stack, 2)[1] = TopN(st.stack, 2)[2] THEN 1 ELSE 0)]
       [] op = OPCODE_I64_NE ->
            [next EXCEPT !.stack =
               Append(Pop(st.stack, 2),
                      IF TopN(st.stack, 2)[1] # TopN(st.stack, 2)[2] THEN 1 ELSE 0)]
       [] op = OPCODE_I32_LOAD ->
            LET addr == Top(st.stack) + DecodeULEB128(imm[2])
            IN IF ~InBounds(addr, 4, env) THEN [st EXCEPT !.status = "trap"]
               ELSE [next EXCEPT !.stack = Append(Pop(st.stack, 1), LoadI32(st.mem, addr))]
       [] op = OPCODE_I64_LOAD ->
            LET addr == Top(st.stack) + DecodeULEB128(imm[2])
            IN IF ~InBounds(addr, 8, env) THEN [st EXCEPT !.status = "trap"]
               ELSE [next EXCEPT !.stack = Append(Pop(st.stack, 1), LoadI64(st.mem, addr)),
                                 !.loads = Append(st.loads, addr)]
       [] op = OPCODE_I64_STORE ->
            LET addr == TopN(st.stack, 2)[1] + DecodeULEB128(imm[2])
                val == TopN(st.stack, 2)[2]
            IN IF ~InBounds(addr, 8, env) THEN [st EXCEPT !.status = "trap"]
               ELSE [next EXCEPT !.stack = Pop(st.stack, 2),
                                 !.mem = [a \in DOMAIN st.mem \cup {addr} |->
                                            IF a = addr THEN val ELSE st.mem[a]],
                                 !.stores = Append(st.stores, <<addr, val>>)]
       [] op = OPCODE_CALL ->
            IF ~LebComplete(imm) \/ FuncName(DecodeULEB128(imm)) = NoSym
            THEN [st EXCEPT !.status = "malformed"]
            ELSE LET name == FuncName(DecodeULEB128(imm))
                     n == Arity(name)
                     args == TopN(st.stack, n)
                     called == [next EXCEPT
                                  !.stack = Pop(st.stack, n) \o CallResult(name, env),
                                  !.calls = Append(st.calls, <<name, args>>),
                                  !.mem = MemAfterCall(name, st.mem, env)]
                 IN \* eosio_assert_code(0, code) ends the transaction
                    IF name = "eosio_assert_code" /\ args[1] = 0
                    THEN [called EXCEPT !.status = "asserted"]
                    ELSE called
       [] op = OPCODE_IF ->
            IF Top(st.stack) # 0
            THEN [next EXCEPT !.stack = Pop(st.stack, 1), !.depth = st.depth + 1]
            ELSE LET j == BlockBoundary(body, st.pc + 1, 0, TRUE)
                 IN IF j <= Len(body) /\ body[j][1] = OPCODE_ELSE
                    THEN [st EXCEPT !.stack = Pop(st.stack, 1), !.pc = j + 1,
                                    !.depth = st.depth + 1]
                    ELSE [st EXCEPT !.stack = Pop(st.stack, 1), !.pc = j + 1]
       [] op = OPCODE_ELSE ->
            \* the end of a taken branch: leave the block
            [st EXCEPT !.pc = BlockBoundary(body, st.pc + 1, 0, FALSE) + 1,
                       !.depth = st.depth - 1]
       [] op = OPCODE_END ->
            IF st.depth <= 1 THEN Returned(st)
            ELSE [next EXCEPT !.depth = st.depth - 1]
       [] op = OPCODE_RETURN -> Returned(st)
       [] OTHER -> [st EXCEPT !.status = "malformed"]

\* At most 2^k instructions from st on.
RECURSIVE RunSteps(_, _, _, _)
RunSteps(body, st, env, k) ==
  IF st.status # "running" THEN st
  ELSE IF k = 0
       THEN IF st.pc > Len(body) THEN Returned(st) ELSE Step(body, st, env)
       ELSE LET half == RunSteps(body, st, env, k - 1)
            IN RunSteps(body, half, env, k - 1)

RECURSIVE Log2Up(_)
Log2Up(n) == IF n <= 1 THEN 0 ELSE 1 + Log2Up((n + 1) \div 2)

\* The function runs until it returns, traps or ends the transaction; no
\* instruction jumps backwards, so Len(body) + 1 steps are enough.
Run(body, st, env) == RunSteps(body, st, env, Log2Up(Len(body) + 1))

\* The machine at the entry of a function with the given locals and memory.
StartState(locals, mem) ==
  [pc |-> 1, stack |-> <<>>, locals |-> locals,
   globals |-> [g \in {StackCanaryGlobalIndex} |-> ToU64(0)],
   mem |-> mem, calls |-> <<>>, stores |-> <<>>, loads |-> <<>>,
   depth |-> 1, status |-> "running", ret |-> <<>>]

----------------------------------------------------------------------------
(* The links the dispatchers are emitted for, and the runs of the emitted  *)
(* functions.                                                              *)

MaxObjs == 2

\* What one object file may declare: actions "name:function" and
\* notifications "code::action:function" (ObjFile::getEosioActions,
\* getEosioNotify).
ObjectKinds ==
  { [actions |-> <<"transfer:T1">>, notify |-> <<>>, calls |-> <<>>],
    [actions |-> <<"transfer:T1", "issue:I1">>,
     notify |-> <<"token::transfer:N1">>, calls |-> <<>>],
    [actions |-> <<"issue:I1", "transfer:T2">>,
     notify |-> <<"*::transfer:W1">>, calls |-> <<>>],
    [actions |-> <<>>,
     notify |-> <<"token::transfer:N1", "token::issue:N2", "eosio::onerror:N3">>,
     calls |-> <<>>],
    [actions |-> <<>>,
     notify |-> <<"bank::transfer:N4", "*::issue:W2">>, calls |-> <<>>] }

\* Object files that declare sync calls "name:function"
\* (ObjFile::getEosioCalls).
CallObjectKinds ==
  { [actions |-> <<>>, notify |-> <<>>, calls |-> <<"withdraw:S1">>],
    [actions |-> <<>>, notify |-> <<>>, calls |-> <<"withdraw:S1", "deposit:S2">>],
    [actions |-> <<>>, notify |-> <<>>, calls |-> <<"deposit:S2", "withdraw:S3">>],
    [actions |-> <<>>, notify |-> <<>>, calls |-> <<"refund:S4">>] }

\* The function index space in the order assignIndexes fills it: imported
\* functions, synthetic functions, functions defined in object files.
FunctionOrder ==
  << "eosio_set_contract_name", "eosio_assert_code", "current_time",
     "__eos_get_sync_call_data_", "__eos_get_sync_call_data_header_",
     "__wasm_call_ctors",
     "pre_dispatch", "post_dispatch", "__cxa_finalize",
     "T1", "T2", "I1", "N1", "N2", "N3", "N4", "W1", "W2",
     "S1", "S2", "S3", "S4" >>

\* Symbols of the table that are not functions (globals, data).
NumOtherSymbols == 4

\* The symbol table of a link where the symbols of `absent` are undefined.
SymbolTable(absent) ==
  LET present == {FunctionOrder[i] : i \in 1..Len(FunctionOrder)} \ absent
      pos(n) == CHOOSE i \in 1..Len(FunctionOrder) : FunctionOrder[i] = n
  IN [index |-> [n \in present |->
                   Cardinality({m \in present : pos(m) < pos(n)})],
      size |-> Cardinality(present) + NumOtherSymbols]

Hooks == {"pre_dispatch", "post_dispatch", "__cxa_finalize"}

\* Where layoutMemory may have put __data_end.
DataEnds == {1024, 8192}

\* The links considered: without the canary, every combination of the hooks,
\* and links that miss eosio_assert_code or __wasm_call_ctors; with the
\* canary, with and without __cxa_finalize and without current_time, for
\* each place of __data_end.
LinkKinds ==
  { [absent |-> Hooks \ P, canary |-> FALSE, dataEnd |-> 1024] : P \in SUBSET Hooks }
  \cup { [absent |-> Hooks \cup {x}, canary |-> FALSE, dataEnd |-> 1024] :
           x \in {"eosio_assert_code", "__wasm_call_ctors"} }
  \cup { [absent |-> a, canary |-> TRUE, dataEnd |-> d] :
           a \in { Hooks, {"pre_dispatch", "post_dispatch"} }, d \in DataEnds }
  \cup { [absent |-> Hooks \cup {"current_time"}, canary |-> TRUE, dataEnd |-> 1024] }

NoRun == [fn |-> "none"]
NoLayout == [state |-> "none"]
NoWriter == [state |-> "none"]

\* A link before its object files are known.
InitLink ==
  /\ objectFiles = <<>>
  /\ \E k \in LinkKinds :
       /\ symbols = SymbolTable(k.absent)
       /\ stackCanary = k.canary
       /\ dataEndVA = k.dataEnd
  /\ phase = "objects"
  /\ entryBody = <<>>
  /\ syncCallBody = <<>>
  /\ vm = NoRun
  /\ layout = NoLayout
  /\ writer = NoWriter

\* One more object file in symtab->objectFiles.
AddObjFileFrom(kinds) ==
  /\ phase = "objects"
  /\ Len(objectFiles) < MaxObjs
  /\ \E file \in kinds : objectFiles' = Append(objectFiles, file)
  /\ UNCHANGED <<symbols, stackCanary, dataEndVA, phase, entryBody, syncCallBody,
                 vm, layout, writer>>

AddObjFile == AddObjFileFrom(ObjectKinds)

AddCallObjFile == AddObjFileFrom(CallObjectKinds)

\* Writer::createDispatchFunction: the body is installed in the entry
\* function, or the link dies.  Writer::run calls it before
\* createCallDispatchFunction.
createDispatchFunction ==
  /\ phase \in {"objects", "emit"}
  /\ entryBody = <<>>
  /\ syncCallBody = <<>>
  /\ IF DispatchFatal
     THEN phase' = "fatal" /\ entryBody' = <<>>
     ELSE phase' = "emit" /\ entryBody' = DispatchBody
  /\ UNCHANGED <<objectFiles, symbols, stackCanary, dataEndVA, syncCallBody, vm, layout,
                 writer>>

\* Writer::createCallDispatchFunction: the body is installed in sync_call,
\* or the link dies.
createCallDispatchFunction ==
  /\ phase \in {"objects", "emit"}
  /\ syncCallBody = <<>>
  /\ IF CallDispatchFatal
     THEN phase' = "fatal" /\ syncCallBody' = <<>>
     ELSE phase' = "emit" /\ syncCallBody' = CallDispatchBody
  /\ UNCHANGED <<objectFiles, symbols, stackCanary, dataEndVA, entryBody, vm, layout,
                 writer>>

eosio == string_to_name("eosio")

Receivers == {eosio, string_to_name("alice")}
Codes == {eosio, string_to_name("alice"), string_to_name("token"), string_to_name("bank")}
ActionNames == {string_to_name("transfer"), string_to_name("issue"),
                string_to_name("onerror"), string_to_name("nope")}

\* The size of linear memory during a run.
MemoryBytes == 65536

\* The host runs apply(receiver, code, action) of the linked contract.
apply ==
  /\ phase = "emit"
  /\ entryBody # <<>>
  /\ \E receiver \in Receivers, code \in Codes, action \in ActionNames,
        pre_ret \in {0, 1}, tamper \in {{}, {dataEndVA + 8}} :
       /\ (symtab_find("pre_dispatch") = NoSym => pre_ret = 1)
       /\ (~stackCanary => tamper = {})
       /\ LET env == [pre_ret |-> pre_ret, now |-> ToU64(7), tamper |-> tamper,
                      data |-> 0, header |-> 0, memBytes |-> MemoryBytes]
          IN vm' = [fn |-> "apply", args |-> <<receiver, code, action>>, env |-> env,
                    result |-> Run(entryBody, StartState(<<receiver, code, action>>, << >>),
                                   env)]
  /\ phase' = "ran"
  /\ UNCHANGED <<objectFiles, symbols, stackCanary, dataEndVA, entryBody, syncCallBody,
                 layout, writer>>

\* Where the host puts the sync-call payload and its header.
SyncDataAddr == 2048
SyncHeaderAddr == 4096

CallNames == {"withdraw", "deposit", "refund", "nope"}

\* The host runs sync_call(sender, receiver, data_size) of the linked
\* contract; the header holds a version at +0 and the hashed name at +8.
sync_call ==
  /\ phase = "emit"
  /\ syncCallBody # <<>>
  /\ \E receiver \in Receivers, version \in {0, 1}, name \in CallNames,
        tamper \in {{}, {dataEndVA + 8}} :
       /\ (~stackCanary => tamper = {})
       /\ LET env == [pre_ret |-> 1, now |-> ToU64(7), tamper |-> tamper,
                      data |-> SyncDataAddr, header |-> SyncHeaderAddr,
                      memBytes |-> MemoryBytes]
              sender == string_to_name("bob")
              data_size == 24
              mem == (SyncHeaderAddr :> version) @@ (SyncHeaderAddr + 8 :> to_hash_id(name))
          IN vm' = [fn |-> "sync_call", args |-> <<sender, receiver, data_size>>,
                    version |-> version, name |-> name, env |-> env,
                    result |-> Run(syncCallBody,
                                   StartState(<<sender, receiver, data_size, 0, 0>>, mem),
                                   env)]
  /\ phase' = "ran"
  /\ UNCHANGED <<objectFiles, symbols, stackCanary, dataEndVA, entryBody, syncCallBody,
                 layout, writer>>

\* The emitters alone, on links that declare actions, notifications and
\* sync calls.
NextEmit ==
  AddObjFile \/ AddCallObjFile \/ createDispatchFunction \/ createCallDispatchFunction

SpecEmit == InitLink /\ [][NextEmit]_vars

\* apply of every link.
NextApply == AddObjFile \/ createDispatchFunction \/ apply

SpecApply == InitLink /\ [][NextApply]_vars

\* sync_call of every link.
NextSyncCall == AddCallObjFile \/ createCallDispatchFunction \/ sync_call

SpecSyncCall == InitLink /\ [][NextSyncCall]_vars

----------------------------------------------------------------------------
(* layoutMemory, Writer.cpp:238-330.  A uint32_t is <<hi, lo>>, two 16-bit *)
(* limbs; the uint64_t alignTo returns is <<top, hi, lo>>.                 *)

Limb == 65536

stackAlignment == 16
WasmPageSize == 65536

\* The uint32_t of a number below 2^31.
U32(n) == <<n \div Limb, n % Limb>>

\* 0xFFFF0000 + lo, for the values above 2^31.
High32(lo) == <<Limb - 1, lo>>

\* A symbol, or a field, that layoutMemory has not set.
Unset == <<>>

\* a + b in uint32_t: the carry out of bit 31 is lost.
Add32(a, b) ==
  LET lo == a[2] + b[2]
  IN <<(a[1] + b[1] + lo \div Limb) % Limb, lo % Limb>>

\* a < b in uint32_t.
Less32(a, b) == a[1] < b[1] \/ (a[1] = b[1] /\ a[2] < b[2])

\* The implicit conversions uint32_t -> uint64_t and uint64_t -> uint32_t.
Widen(a) == <<0, a[1], a[2]>>
Trunc32(x) == <<x[2], x[3]>>

RECURSIVE Pow2(_)
Pow2(n) == IF n = 0 THEN 1 ELSE 2 * Pow2(n - 1)

RECURSIVE Log2(_)
Log2(n) == IF n <= 1 THEN 0 ELSE 1 + Log2(n \div 2)

\* llvm::alignTo(value, 1ULL << shift), computed in uint64_t: the next
\* multiple of 2^shift at or above value.  shift <= 32.
alignTo(value, shift) ==
  IF shift <= 16
  THEN LET rem == value[2] % Pow2(shift)
           lo == value[2] - rem + Pow2(shift)
           hi == value[1] + lo \div Limb
       IN IF rem = 0 THEN Widen(value)
          ELSE <<hi \div Limb, hi % Limb, lo % Limb>>
  ELSE LET unit == Pow2(shift - 16)
           hi == (value[1] \div unit + 1) * unit
       IN IF value[2] = 0 /\ value[1] % unit = 0 THEN Widen(value)
          ELSE <<hi \div Limb, hi % Limb, 0>>

\* placeStack as it would be were memoryPtr not advanced past the stack.
placeStack_NoAdvance(memoryPtr, cfg) ==
  [memoryPtr |-> memoryPtr, stackBase |-> memoryPtr, stackPointer |-> memoryPtr,
   errors |-> <<>>]

\* placeStack as it would be were the stack placed in every kind of link.
placeStack_NoSkip(memoryPtr, cfg) ==
  LET base == Trunc32(alignTo(memoryPtr, Log2(stackAlignment)))
      top == Add32(base, cfg.zStackSize)
  IN [memoryPtr |-> top, stackBase |-> base, stackPointer |-> top,
      errors |->
        IF Widen(cfg.zStackSize) # alignTo(cfg.zStackSize, Log2(stackAlignment))
        THEN <<"stack size must be 16-byte aligned">>
        ELSE <<>>]

\* The lambda placeStack of layoutMemory, from memoryPtr.
placeStack(memoryPtr, cfg) ==
  IF cfg.relocatable \/ cfg.isPic
  THEN [memoryPtr |-> memoryPtr, stackBase |-> Unset, stackPointer |-> Unset,
        errors |-> <<>>]
  ELSE LET base == Trunc32(alignTo(memoryPtr, Log2(stackAlignment)))
           top == Add32(base, cfg.zStackSize)
       IN [memoryPtr |-> top, stackBase |-> base, stackPointer |-> top,
           errors |->
             IF Widen(cfg.zStackSize) # alignTo(cfg.zStackSize, Log2(stackAlignment))
             THEN <<"stack size must be 16-byte aligned">>
             ELSE <<>>]

\* The loop over the output segments, from segment i on.  acc carries
\* memoryPtr, the start addresses given so far, dylinkSec->memAlign, the
\* init value of __tls_size and the values memoryPtr took.
RECURSIVE placeSegments(_, _, _, _)
placeSegments(segs, i, hasSymbols, acc) ==
  IF i > Len(segs) THEN acc
  ELSE LET seg == segs[i]
           startVA == Trunc32(alignTo(acc.memoryPtr, seg.alignment))
           next == Add32(startVA, seg.size)
       IN placeSegments(segs, i + 1, hasSymbols,
            [memoryPtr |-> next,
             startVA |-> Append(acc.startVA, startVA),
             memAlign |-> Max(acc.memAlign, seg.alignment),
             tlsSize |-> IF hasSymbols /\ seg.name = ".tdata" THEN seg.size
                         ELSE acc.tlsSize,
             ptrs |-> acc.ptrs \o <<startVA, next>>])

\* A symbol's virtual address, when the symbol exists.
setVirtualAddress(hasSymbols, va) == IF hasSymbols THEN va ELSE Unset

\* layoutMemory on a configuration and the output segments; run has set
\* globalBase to 0 in a relocatable or PIC link before it is called.
layoutMemoryOf(config, segs) ==
  LET cfg == [config EXCEPT !.globalBase =
                IF config.relocatable \/ config.isPic THEN U32(0) ELSE @]
      first == IF cfg.stackFirst THEN placeStack(U32(0), cfg)
               ELSE [memoryPtr |-> cfg.globalBase, stackBase |-> Unset,
                     stackPointer |-> Unset, errors |-> <<>>]
      dataStart == first.memoryPtr
      placed == placeSegments(segs, 1, cfg.hasSymbols,
                  [memoryPtr |-> dataStart, startVA |-> <<>>, memAlign |-> 0,
                   tlsSize |-> Unset, ptrs |-> <<U32(0), dataStart>>])
      dataEnd == placed.memoryPtr
      second == IF ~cfg.stackFirst THEN placeStack(dataEnd, cfg)
                ELSE [first EXCEPT !.memoryPtr = dataEnd, !.errors = <<>>]
      heapBase == second.memoryPtr
      initialErrors ==
        IF cfg.initialMemory = U32(0) THEN <<>>
        ELSE (IF Widen(cfg.initialMemory) # alignTo(cfg.initialMemory, Log2(WasmPageSize))
              THEN <<"initial memory must be 65536-byte aligned">> ELSE <<>>)
             \o (IF Less32(cfg.initialMemory, heapBase)
                 THEN <<"initial memory too small">> ELSE <<>>)
      memSize == IF cfg.initialMemory # U32(0) /\ ~Less32(cfg.initialMemory, heapBase)
                 THEN cfg.initialMemory ELSE heapBase
      pages == alignTo(memSize, Log2(WasmPageSize))
      checkMax == cfg.maxMemory # U32(0) \/ cfg.sharedMemory
      maxErrors ==
        IF ~checkMax THEN <<>>
        ELSE (IF Widen(cfg.maxMemory) # alignTo(cfg.maxMemory, Log2(WasmPageSize))
              THEN <<"maximum memory must be 65536-byte aligned">> ELSE <<>>)
             \o (IF Less32(cfg.maxMemory, memSize)
                 THEN <<"maximum memory too small">> ELSE <<>>)
      common == [state |-> "done", config |-> cfg, segments |-> segs,
                 globalBaseVA |-> setVirtualAddress(cfg.hasSymbols, cfg.globalBase),
                 dsoHandleVA |-> setVirtualAddress(cfg.hasSymbols, dataStart),
                 startVA |-> placed.startVA,
                 memAlign |-> placed.memAlign,
                 tlsSize |-> placed.tlsSize,
                 dataEndVA |-> setVirtualAddress(cfg.hasSymbols, dataEnd)]
  IN IF cfg.shared
     THEN common @@ [stackBase |-> first.stackBase,
                     stackPointer |-> first.stackPointer,
                     heapBaseVA |-> Unset, memSize |-> dataEnd,
                     numMemoryPages |-> Unset, maxMemoryPages |-> Unset,
                     errors |-> first.errors,
                     ptrs |-> placed.ptrs]
     ELSE common @@ [stackBase |-> second.stackBase,
                     stackPointer |-> second.stackPointer,
                     heapBaseVA |-> setVirtualAddress(cfg.hasSymbols, heapBase),
                     memSize |-> memSize,
                     numMemoryPages |-> pages[1] * Limb + pages[2],
                     maxMemoryPages |-> IF checkMax THEN cfg.maxMemory[1] ELSE Unset,
                     errors |-> first.errors \o second.errors \o initialErrors
                                  \o maxErrors,
                     ptrs |-> placed.ptrs \o <<heapBase, memSize>>]

\* The links laid out: an executable, a relocatable object, a position
\* independent executable and a shared library.
LinkModes ==
  { [relocatable |-> FALSE, isPic |-> FALSE, shared |-> FALSE],
    [relocatable |-> TRUE, isPic |-> FALSE, shared |-> FALSE],
    [relocatable |-> FALSE, isPic |-> TRUE, shared |-> FALSE],
    [relocatable |-> FALSE, isPic |-> TRUE, shared |-> TRUE] }

GlobalBases == { U32(1024), High32(65520) }
StackSizes == { U32(24), U32(65536), High32(65520) }
InitialMemories == { U32(0), U32(100), U32(131072) }
MaxMemories == { U32(0), U32(100), U32(65536) }

Configs ==
  { m @@ [stackFirst |-> sf, sharedMemory |-> sm, hasSymbols |-> hs,
          globalBase |-> gb, zStackSize |-> z, initialMemory |-> im,
          maxMemory |-> mm] :
      m \in LinkModes, sf \in BOOLEAN, sm \in BOOLEAN, hs \in BOOLEAN,
      gb \in GlobalBases, z \in StackSizes, im \in InitialMemories,
      mm \in MaxMemories }

\* The output segments createOutputSegments may have made.
SegmentKinds ==
  { [name |-> ".rodata", size |-> U32(10), alignment |-> 0],
    [name |-> ".data", size |-> U32(100), alignment |-> 2],
    [name |-> ".tdata", size |-> U32(24), alignment |-> 4],
    [name |-> ".bss", size |-> U32(65536), alignment |-> 16] }

MaxSegs == 2

\* A link before its output segments are known.
InitLayout ==
  /\ objectFiles = <<>>
  /\ symbols = SymbolTable({})
  /\ stackCanary = FALSE
  /\ dataEndVA = 1024
  /\ phase = "segments"
  /\ entryBody = <<>>
  /\ syncCallBody = <<>>
  /\ vm = NoRun
  /\ writer = NoWriter
  /\ \E cfg \in Configs :
       layout = [state |-> "config", config |-> cfg, segments |-> <<>>]

\* createOutputSegments makes one more output segment.
createOutputSegment ==
  /\ phase = "segments"
  /\ layout.state = "config"
  /\ Len(layout.segments) < MaxSegs
  /\ \E seg \in SegmentKinds :
       layout' = [layout EXCEPT !.segments = Append(@, seg)]
  /\ UNCHANGED <<objectFiles, symbols, stackCanary, dataEndVA, phase, entryBody,
                 syncCallBody, vm, writer>>

layoutMemory ==
  /\ phase = "segments"
  /\ layout.state = "config"
  /\ layout' = layoutMemoryOf(layout.config, layout.segments)
  /\ phase' = "laidout"
  /\ UNCHANGED <<objectFiles, symbols, stackCanary, dataEndVA, entryBody,
                 syncCallBody, vm, writer>>

NextLayout == createOutputSegment \/ layoutMemory

SpecLayout == InitLayout /\ [][NextLayout]_vars

----------------------------------------------------------------------------
(* The Writer's steps that touch neither the dispatchers nor the layout.   *)

\* The rest of the state while such a step runs.
WriterOnlyInit ==
  /\ objectFiles = <<>>
  /\ symbols = SymbolTable({})
  /\ stackCanary = FALSE
  /\ dataEndVA = 1024
  /\ phase = "writer"
  /\ entryBody = <<>>
  /\ syncCallBody = <<>>
  /\ vm = NoRun
  /\ layout = NoLayout

WriterOnly ==
  UNCHANGED <<objectFiles, symbols, stackCanary, dataEndVA, phase, entryBody,
              syncCallBody, vm, layout>>

----------------------------------------------------------------------------
(* getOutputDataSegmentName and createOutputSegments, Writer.cpp:655-698.  *)

\* StringRef::startswith.
startswith(name, prefix) ==
  Len(name) >= Len(prefix) /\ SubSeq(name, 1, Len(prefix)) = prefix

\* getOutputDataSegmentName as it would be were .tbss not merged into .tdata.
getOutputDataSegmentName_NoTbss(cfg, name) ==
  IF cfg.isPic THEN ".data"
  ELSE IF startswith(name, ".tdata") THEN ".tdata"
  ELSE IF ~cfg.mergeDataSegments THEN name
  ELSE IF startswith(name, ".text.") THEN ".text"
  ELSE IF startswith(name, ".data.") THEN ".data"
  ELSE IF startswith(name, ".bss.") THEN ".bss"
  ELSE IF startswith(name, ".rodata.") THEN ".rodata"
  ELSE name

getOutputDataSegmentName(cfg, name) ==
  IF cfg.isPic THEN ".data"
  ELSE IF startswith(name, ".tdata") \/ startswith(name, ".tbss") THEN ".tdata"
  ELSE IF ~cfg.mergeDataSegments THEN name
  ELSE IF startswith(name, ".text.") THEN ".text"
  ELSE IF startswith(name, ".data.") THEN ".data"
  ELSE IF startswith(name, ".bss.") THEN ".bss"
  ELSE IF startswith(name, ".rodata.") THEN ".rodata"
  ELSE name

WASM_SEGMENT_IS_PASSIVE == 1

\* initFlagsOf as it would be were passiveSegments not consulted.
initFlagsOf_TdataOnly(cfg, name) ==
  IF name = ".tdata" THEN WASM_SEGMENT_IS_PASSIVE ELSE 0

\* The flags a new output segment gets.
initFlagsOf(cfg, name) ==
  IF cfg.passiveSegments \/ name = ".tdata" THEN WASM_SEGMENT_IS_PASSIVE ELSE 0

\* The place of the output segment called name in segs, 0 if there is none
\* (segmentMap[name]).
segmentMap(segs, name) ==
  IF \E i \in 1..Len(segs) : segs[i].name = name
  THEN CHOOSE i \in 1..Len(segs) : segs[i].name = name
  ELSE 0

\* The body of the inner loop for one input segment.
addToOutput_KeepsDead(cfg, segs, segment) ==
  LET name == getOutputDataSegmentName(cfg, segment.name)
      at == segmentMap(segs, name)
  IN IF at = 0
     THEN Append(segs, [name |-> name, index |-> Len(segs),
                        initFlags |-> initFlagsOf(cfg, name),
                        inputSegments |-> <<segment>>])
     ELSE [segs EXCEPT ![at].inputSegments = Append(@, segment)]

addToOutput(cfg, segs, segment) ==
  IF ~segment.live THEN segs
  ELSE LET name == getOutputDataSegmentName(cfg, segment.name)
           at == segmentMap(segs, name)
       IN IF at = 0
          THEN Append(segs, [name |-> name, index |-> Len(segs),
                             initFlags |-> initFlagsOf(cfg, name),
                             inputSegments |-> <<segment>>])
          ELSE [segs EXCEPT ![at].inputSegments = Append(@, segment)]

RECURSIVE addSegmentsOf(_, _, _)
addSegmentsOf(cfg, segs, inputs) ==
  IF inputs = <<>> THEN segs
  ELSE addSegmentsOf(cfg, addToOutput(cfg, segs, Head(inputs)), Tail(inputs))

\* The outer loop: acc carries the output segments and the ABI list.
RECURSIVE createOutputSegmentsOf(_, _, _)
createOutputSegmentsOf(cfg, files, acc) ==
  IF files = <<>> THEN acc
  ELSE LET file == Head(files)
       IN createOutputSegmentsOf(cfg, Tail(files),
            [abis |-> IF file.abi # "" THEN Append(acc.abis, file.abi) ELSE acc.abis,
             segments |-> addSegmentsOf(cfg, acc.segments, file.segments)])

InSeg(file, name, live) == [file |-> file, name |-> name, live |-> live]

\* Object files with their ABI and their data segments.
SegmentFileKinds ==
  { [abi |-> "abiA", segments |-> << InSeg("a", ".data.foo", TRUE),
                                     InSeg("a", ".tdata.x", TRUE) >>],
    [abi |-> "", segments |-> << InSeg("b", ".tbss.y", TRUE),
                                 InSeg("b", ".rodata.str", TRUE) >>],
    [abi |-> "abiC", segments |-> << InSeg("c", ".text.main", TRUE),
                                     InSeg("c", ".data", FALSE),
                                     InSeg("c", "custom", TRUE) >>],
    [abi |-> "", segments |-> << InSeg("d", ".tdata", TRUE),
                                 InSeg("d", ".bss.z", TRUE),
                                 InSeg("d", ".data", TRUE) >>],
    [abi |-> "abiE", segments |-> <<>>],
    [abi |-> "abiG", segments |-> << InSeg("g", ".data", FALSE) >>],
    [abi |-> "", segments |-> << InSeg("f", ".tbss", FALSE),
                                 InSeg("f", ".datax", TRUE),
                                 InSeg("f", ".rodata", TRUE) >>] }

SegmentConfigs ==
  { [isPic |-> p, mergeDataSegments |-> m, passiveSegments |-> s] :
      p \in BOOLEAN, m \in BOOLEAN, s \in BOOLEAN }

MaxSegFiles == 2

InitSegments ==
  /\ WriterOnlyInit
  /\ \E cfg \in SegmentConfigs :
       writer = [state |-> "files", config |-> cfg, files |-> <<>>]

\* One more object file with data segments.
AddSegmentFile ==
  /\ writer.state = "files"
  /\ Len(writer.files) < MaxSegFiles
  /\ \E file \in SegmentFileKinds :
       writer' = [writer EXCEPT !.files = Append(@, file)]
  /\ WriterOnly

createOutputSegments ==
  /\ writer.state = "files"
  /\ LET out == createOutputSegmentsOf(writer.config, writer.files,
                                       [abis |-> <<>>, segments |-> <<>>])
     IN writer' = [state |-> "segments", config |-> writer.config,
                   files |-> writer.files, abis |-> out.abis,
                   segments |-> out.segments]
  /\ WriterOnly

NextSegments == AddSegmentFile \/ createOutputSegments

SpecSegments == InitSegments /\ [][NextSegments]_vars

----------------------------------------------------------------------------
(* populateTargetFeatures, Writer.cpp:392-496.  A StringMap is a set of    *)
(* <<key, value>> pairs with one pair per key; an object file is named by  *)
(* its place in symtab->objectFiles.                                       *)

WASM_FEATURE_PREFIX_USED == "+"
WASM_FEATURE_PREFIX_REQUIRED == "="
WASM_FEATURE_PREFIX_DISALLOWED == "-"

keys(map) == {p[1] : p \in map}
count(map, key) == key \in keys(map)
lookup(map, key) == (CHOOSE p \in map : p[1] = key)[2]

\* StringMap::insert as it would be were an existing key overwritten.
insert_Overwrite(map, key, value) ==
  {p \in map : p[1] # key} \cup {<<key, value>>}

\* StringMap::insert: an existing key keeps its value.
insert(map, key, value) ==
  IF count(map, key) THEN map ELSE map \cup {<<key, value>>}

\* config->features: an optional list of feature names.
NoFeatures == [hasValue |-> FALSE, value |-> {}]
SomeFeatures(names) == [hasValue |-> TRUE, value |-> names]

\* An error about a feature, the file it was seen in and the file of the
\* map entry the message names ("" and 0 where the message has none).
FeatureError(kind, feature, file, by) ==
  [kind |-> kind, feature |-> feature, file |-> file, by |-> by]

\* The first loop over the object files, from file i on: acc carries used,
\* required, disallowed, tlsUsed and the errors.
RECURSIVE readFeatures(_, _, _)
readFeatures(files, i, acc) ==
  IF i > Len(files) THEN acc
  ELSE LET RECURSIVE perFeature(_, _)
           perFeature(j, a) ==
             IF j > Len(files[i].features) THEN a
             ELSE LET f == files[i].features[j]
                  IN perFeature(j + 1,
                       CASE f.prefix = WASM_FEATURE_PREFIX_USED ->
                              [a EXCEPT !.used = insert(@, f.name, i)]
                         [] f.prefix = WASM_FEATURE_PREFIX_REQUIRED ->
                              [a EXCEPT !.used = insert(@, f.name, i),
                                        !.required = insert(@, f.name, i)]
                         [] f.prefix = WASM_FEATURE_PREFIX_DISALLOWED ->
                              [a EXCEPT !.disallowed = insert(@, f.name, i)]
                         [] OTHER ->
                              [a EXCEPT !.errors = @ \cup
                                 {FeatureError("unrecognized prefix", f.name, i, 0)}])
           after == perFeature(1, acc)
       IN readFeatures(files, i + 1,
            [after EXCEPT !.tlsUsed = @ \/ files[i].liveTls])

\* The last loop: the required and disallowed constraints of each file.
validateFiles(files, required, disallowed) ==
  UNION { LET feats == {files[i].features[j] : j \in 1..Len(files[i].features)}
              objectFeatures ==
                {f.name : f \in {g \in feats : g.prefix # WASM_FEATURE_PREFIX_DISALLOWED}}
          IN {FeatureError("disallowed", n, i, lookup(disallowed, n)) :
                 n \in objectFeatures \cap keys(disallowed)}
             \cup
             {FeatureError("missing", n, i, lookup(required, n)) :
                 n \in keys(required) \ objectFeatures}
        : i \in 1..Len(files) }

\* Whether the early return of line 404 is taken.
returnsBeforeReading_Never(cfg) == FALSE

returnsBeforeReading(cfg) == cfg.features.hasValue /\ ~cfg.checkFeatures

\* populateTargetFeatures: the features of the output and the errors.
populateTargetFeaturesOf(cfg, files) ==
  LET inferFeatures == ~cfg.features.hasValue
      read == readFeatures(files, 1,
                [used |-> {}, required |-> {}, disallowed |-> {},
                 tlsUsed |-> FALSE, errors |-> {}])
      features == IF inferFeatures THEN keys(read.used) ELSE cfg.features.value
      atomics ==
        IF "atomics" \in features /\ ~cfg.sharedMemory
        THEN {FeatureError("atomics needs shared memory", "atomics", 0,
                IF inferFeatures THEN lookup(read.used, "atomics") ELSE 0)}
        ELSE {}
      checked ==
        (IF count(read.disallowed, "atomics") /\ cfg.sharedMemory
         THEN {FeatureError("atomics disallowed", "atomics", 0,
                            lookup(read.disallowed, "atomics"))} ELSE {})
        \cup (IF ~count(read.used, "bulk-memory") /\ cfg.passiveSegments
              THEN {FeatureError("bulk-memory for passive segments", "bulk-memory", 0, 0)}
              ELSE {})
        \cup (IF ~count(read.used, "bulk-memory") /\ read.tlsUsed
              THEN {FeatureError("bulk-memory for thread-local storage", "bulk-memory", 0, 0)}
              ELSE {})
        \cup (IF ~inferFeatures
              THEN {FeatureError("not allowed", n, 0, lookup(read.used, n)) :
                       n \in keys(read.used) \ features}
              ELSE {})
        \cup validateFiles(files, read.required, read.disallowed)
  IN IF returnsBeforeReading(cfg)
     THEN [features |-> cfg.features.value, used |-> {}, required |-> {},
           disallowed |-> {}, errors |-> {}]
     ELSE [features |-> features, used |-> read.used, required |-> read.required,
           disallowed |-> read.disallowed,
           errors |-> read.errors \cup atomics
                        \cup (IF cfg.checkFeatures THEN checked ELSE {})]

Feat(prefix, name) == [prefix |-> prefix, name |-> name]

\* Object files with their target features and whether they have a live
\* .tdata or .tbss segment.
FeatureFileKinds ==
  { [features |-> <<Feat("+", "atomics")>>, liveTls |-> FALSE],
    [features |-> <<Feat("-", "atomics")>>, liveTls |-> FALSE],
    [features |-> <<Feat("=", "bulk-memory"), Feat("+", "atomics")>>, liveTls |-> TRUE],
    [features |-> <<>>, liveTls |-> FALSE],
    [features |-> <<Feat("+", "bulk-memory"), Feat("?", "simd128")>>, liveTls |-> TRUE],
    [features |-> <<Feat("=", "atomics")>>, liveTls |-> FALSE] }

FeatureConfigs ==
  { [features |-> f, checkFeatures |-> c, sharedMemory |-> s, passiveSegments |-> p] :
      f \in {NoFeatures, SomeFeatures({}), SomeFeatures({"atomics"}),
             SomeFeatures({"atomics", "bulk-memory"})},
      c \in BOOLEAN, s \in BOOLEAN, p \in BOOLEAN }

MaxFeatureFiles == 2

InitFeatures ==
  /\ WriterOnlyInit
  /\ \E cfg \in FeatureConfigs :
       writer = [state |-> "objects", config |-> cfg, files |-> <<>>]

AddFeatureFile ==
  /\ writer.state = "objects"
  /\ Len(writer.files) < MaxFeatureFiles
  /\ \E file \in FeatureFileKinds :
       writer' = [writer EXCEPT !.files = Append(@, file)]
  /\ WriterOnly

populateTargetFeatures ==
  /\ writer.state = "objects"
  /\ writer' = [state |-> "features", config |-> writer.config,
                files |-> writer.files,
                out |-> populateTargetFeaturesOf(writer.config, writer.files)]
  /\ WriterOnly

NextFeatures == AddFeatureFile \/ populateTargetFeatures

SpecFeatures == InitFeatures /\ [][NextFeatures]_vars

-----------------------------------------------------------------------------
(* calculateExports: the export section of the output.                     *)

functionTableName == "__indirect_function_table"

WasmExport(sym, name, kind, index) ==
  [sym |-> sym, name |-> name, kind |-> kind, index |-> index]

\* The tests every symbol passes before it is looked at: defined, not hidden
\* unless exportAll, not local, live.
passesFilter_HiddenToo(cfg, sym) ==
  sym.defined /\ ~sym.local /\ sym.live

passesFilter(cfg, sym) ==
  /\ sym.defined
  /\ ~(sym.hidden /\ ~cfg.exportAll)
  /\ ~sym.local
  /\ sym.live

\* The loop over symtab->getSymbols(), from symbol i on: acc carries the
\* export list, definedFakeGlobals and fakeGlobalIndex.  A symbol is named by
\* its position in the symbol vector.
RECURSIVE exportSymbols(_, _, _, _)
exportSymbols(cfg, syms, i, acc) ==
  IF i > Len(syms) THEN acc
  ELSE LET sym == syms[i]
           push(kind, index) ==
             [acc EXCEPT !.exports = Append(@, WasmExport(i, sym.name, kind, index))]
       IN exportSymbols(cfg, syms, i + 1,
            IF ~passesFilter(cfg, sym) THEN acc
            ELSE CASE sym.kind = "function" -> push("function", sym.index)
                   [] sym.kind = "global" ->
                        IF sym.mutable THEN acc ELSE push("global", sym.index)
                   [] sym.kind = "event" -> push("event", sym.index)
                   [] OTHER ->
                        [push("global", acc.fakeGlobalIndex) EXCEPT
                           !.definedFakeGlobals = Append(@, i),
                           !.fakeGlobalIndex = @ + 1])

calculateExportsOf(cfg, syms) ==
  LET none == [exports |-> <<>>, definedFakeGlobals |-> <<>>,
               fakeGlobalIndex |-> cfg.numImportedGlobals + cfg.numDefinedGlobals]
      memory == IF ~cfg.relocatable /\ ~cfg.importMemory
                THEN <<WasmExport(0, "memory", "memory", 0)>> ELSE <<>>
      table == IF ~cfg.relocatable /\ cfg.exportTable
               THEN <<WasmExport(0, functionTableName, "table", 0)>> ELSE <<>>
  IN IF cfg.relocatable THEN none
     ELSE exportSymbols(cfg, syms, 1, [none EXCEPT !.exports = memory \o table])

Sym(name, kind, defined, hidden, local, live, mutable, index) ==
  [name |-> name, kind |-> kind, defined |-> defined, hidden |-> hidden,
   local |-> local, live |-> live, mutable |-> mutable, index |-> index]

\* The symbols of a link: defined and undefined, hidden, local and dead ones,
\* the mutable __stack_pointer, and data symbols.
ExportSymbolKinds ==
  { Sym("f", "function", TRUE, FALSE, FALSE, TRUE, FALSE, 7),
    Sym("g", "function", TRUE, TRUE, FALSE, TRUE, FALSE, 8),
    Sym("h", "function", TRUE, FALSE, TRUE, TRUE, FALSE, 9),
    Sym("imp", "function", FALSE, FALSE, FALSE, TRUE, FALSE, 0),
    Sym("__stack_pointer", "global", TRUE, FALSE, FALSE, TRUE, TRUE, 0),
    Sym("flag", "global", TRUE, FALSE, FALSE, TRUE, FALSE, 1),
    Sym("ev", "event", TRUE, FALSE, FALSE, TRUE, FALSE, 0),
    Sym("d", "data", TRUE, FALSE, FALSE, TRUE, FALSE, 0),
    Sym("dead", "data", TRUE, FALSE, FALSE, FALSE, FALSE, 0),
    Sym("e", "data", TRUE, TRUE, FALSE, TRUE, FALSE, 0) }

ExportConfigs ==
  { [relocatable |-> r, importMemory |-> m, exportTable |-> t, exportAll |-> a,
     numImportedGlobals |-> 1, numDefinedGlobals |-> n] :
      r \in BOOLEAN, m \in BOOLEAN, t \in BOOLEAN, a \in BOOLEAN, n \in {0, 2} }

MaxExportSymbols == 3

InitExports ==
  /\ WriterOnlyInit
  /\ \E cfg \in ExportConfigs :
       writer = [state |-> "symbols", config |-> cfg, symbols |-> <<>>]

AddExportSymbol ==
  /\ writer.state = "symbols"
  /\ Len(writer.symbols) < MaxExportSymbols
  /\ \E sym \in ExportSymbolKinds :
       writer' = [writer EXCEPT !.symbols = Append(@, sym)]
  /\ WriterOnly

calculateExports ==
  /\ writer.state = "symbols"
  /\ writer' = [state |-> "exports", config |-> writer.config,
                symbols |-> writer.symbols,
                out |-> calculateExportsOf(writer.config, writer.symbols)]
  /\ WriterOnly

NextExports == AddExportSymbol \/ calculateExports

SpecExports == InitExports /\ [][NextExports]_vars

-----------------------------------------------------------------------------
(* calculateInitFunctions and createCallCtorsFunction: __wasm_call_ctors.  *)

WasmInitEntry(sym, priority) == [sym |-> sym, priority |-> priority]

\* The functions of object file number `file` follow the synthetic functions
\* in the function index space, FunctionsPerFile to a file.
InitMemoryIndex == 0
ApplyRelocsIndex == 1
NumSyntheticFunctions == 3
FunctionsPerFile == 2
getFunctionSymbol(file, fn) ==
  NumSyntheticFunctions + (file - 1) * FunctionsPerFile + fn

\* llvm::stable_sort with l.priority < r.priority, as an insertion sort: an
\* entry goes after every entry that does not compare greater than it.
RECURSIVE stable_sort_EqualsFirst(_)
stable_sort_EqualsFirst(entries) ==
  IF entries = <<>> THEN <<>>
  ELSE LET sorted == stable_sort_EqualsFirst(SubSeq(entries, 1, Len(entries) - 1))
           e == entries[Len(entries)]
           n == Cardinality({k \in 1..Len(sorted) : sorted[k].priority < e.priority})
       IN SubSeq(sorted, 1, n) \o <<e>> \o SubSeq(sorted, n + 1, Len(sorted))

RECURSIVE stable_sort(_)
stable_sort(entries) ==
  IF entries = <<>> THEN <<>>
  ELSE LET sorted == stable_sort(SubSeq(entries, 1, Len(entries) - 1))
           e == entries[Len(entries)]
           n == Cardinality({k \in 1..Len(sorted) : ~(e.priority < sorted[k].priority)})
       IN SubSeq(sorted, 1, n) \o <<e>> \o SubSeq(sorted, n + 1, Len(sorted))

\* The loops over the object files and their InitFunctions, from entry j of
\* file i on: acc carries initFunctions and the number of errors.
RECURSIVE collectInitFunctions(_, _, _, _)
collectInitFunctions(files, i, j, acc) ==
  IF i > Len(files) THEN acc
  ELSE IF j > Len(files[i]) THEN collectInitFunctions(files, i + 1, 1, acc)
  ELSE LET f == files[i][j]
       IN collectInitFunctions(files, i, j + 1,
            IF f.discarded THEN acc
            ELSE [initFunctions |->
                    Append(acc.initFunctions,
                           WasmInitEntry(getFunctionSymbol(i, f.fn), f.priority)),
                  errors |-> acc.errors + (IF f.voidSignature THEN 0 ELSE 1)])

calculateInitFunctionsOf(cfg, files) ==
  LET none == [initFunctions |-> <<>>, errors |-> 0]
  IN IF ~cfg.relocatable /\ ~cfg.callCtorsLive THEN none
     ELSE LET found == collectInitFunctions(files, 1, 1, none)
          IN [found EXCEPT !.initFunctions = stable_sort(@)]

\* The body createCallCtorsFunction writes, after its count of locals.
createCallCtorsFunctionOf(cfg, initFunctions) ==
  (IF cfg.passiveSegments THEN <<InsU(OPCODE_CALL, InitMemoryIndex)>> ELSE <<>>)
  \o (IF cfg.isPic THEN <<InsU(OPCODE_CALL, ApplyRelocsIndex)>> ELSE <<>>)
  \o [k \in 1..Len(initFunctions) |-> InsU(OPCODE_CALL, initFunctions[k].sym)]
  \o <<Ins0(OPCODE_END)>>

WasmInitFunc(fn, priority, discarded, voidSignature) ==
  [fn |-> fn, priority |-> priority, discarded |-> discarded,
   voidSignature |-> voidSignature]

\* The InitFunctions lists of object files.
InitFunctionLists ==
  { <<>>,
    <<WasmInitFunc(0, 2, FALSE, TRUE), WasmInitFunc(1, 1, FALSE, TRUE)>>,
    <<WasmInitFunc(0, 1, FALSE, TRUE), WasmInitFunc(1, 1, FALSE, TRUE)>>,
    <<WasmInitFunc(1, 1, FALSE, TRUE), WasmInitFunc(0, 1, FALSE, TRUE)>>,
    <<WasmInitFunc(0, 1, TRUE, TRUE), WasmInitFunc(1, 2, FALSE, TRUE)>>,
    <<WasmInitFunc(0, 65535, FALSE, TRUE), WasmInitFunc(1, 0, FALSE, TRUE)>>,
    <<WasmInitFunc(0, 1, FALSE, FALSE)>>,
    <<WasmInitFunc(0, 2, FALSE, TRUE), WasmInitFunc(0, 1, FALSE, TRUE)>> }

CtorsConfigs ==
  { [relocatable |-> r, callCtorsLive |-> l, passiveSegments |-> p, isPic |-> s] :
      r \in BOOLEAN, l \in BOOLEAN, p \in BOOLEAN, s \in BOOLEAN }

MaxCtorFiles == 2

InitCtors ==
  /\ WriterOnlyInit
  /\ \E cfg \in CtorsConfigs :
       writer = [state |-> "objects", config |-> cfg, files |-> <<>>]

AddCtorFile ==
  /\ writer.state = "objects"
  /\ Len(writer.files) < MaxCtorFiles
  /\ \E list \in InitFunctionLists :
       writer' = [writer EXCEPT !.files = Append(@, list)]
  /\ WriterOnly

\* calculateInitFunctions, then createCallCtorsFunction where Writer::run
\* calls it and __wasm_call_ctors is live.
createCallCtorsFunction ==
  /\ writer.state = "objects"
  /\ LET cfg == writer.config
         found == calculateInitFunctionsOf(cfg, writer.files)
         created == ~cfg.relocatable /\ cfg.callCtorsLive
     IN writer' = [state |-> "ctors", config |-> cfg, files |-> writer.files,
                   initFunctions |-> found.initFunctions,
                   errors |-> found.errors,
                   created |-> created,
                   body |-> IF created
                            THEN createCallCtorsFunctionOf(cfg, found.initFunctions)
                            ELSE <<>>]
  /\ WriterOnly

NextCtors == AddCtorFile \/ createCallCtorsFunction

SpecCtors == InitCtors /\ [][NextCtors]_vars

-----------------------------------------------------------------------------
(* addSections: the list of output sections.                               *)

\* An output section: a custom section has type "CUSTOM" and a name, any
\* other section is named by its type.
OutputSection(type, name, needed, relocations) ==
  [type |-> type, name |-> name, needed |-> needed,
   relocations |-> relocations, sectionIndex |-> 0]

addSection_Unconditional(outputSections, sec) ==
  Append(outputSections, [sec EXCEPT !.sectionIndex = Len(outputSections)])

addSection(outputSections, sec) ==
  IF ~sec.needed THEN outputSections
  ELSE Append(outputSections, [sec EXCEPT !.sectionIndex = Len(outputSections)])

RECURSIVE addSectionsFrom(_, _)
addSectionsFrom(outputSections, secs) ==
  IF secs = <<>> THEN outputSections
  ELSE addSectionsFrom(addSection(outputSections, Head(secs)), Tail(secs))

\* createCustomSections: one section per entry of customSectionMapping, in
\* the iteration order of the map.
createCustomSections(outputSections, customs) ==
  addSectionsFrom(outputSections,
    [k \in 1..Len(customs) |->
       OutputSection("CUSTOM", customs[k].name, TRUE, customs[k].relocations)])

\* createRelocSections: a reloc section for each section of the list, as it
\* is on entry, that has relocations.
RECURSIVE createRelocSections(_, _, _)
createRelocSections(outputSections, i, origSize) ==
  IF i > origSize THEN outputSections
  ELSE LET sec == outputSections[i]
           name == CASE sec.type = "DATA" -> "reloc.DATA"
                     [] sec.type = "CODE" -> "reloc.CODE"
                     [] OTHER -> "reloc." \o sec.name
       IN createRelocSections(
            IF sec.relocations = 0 THEN outputSections
            ELSE addSection(outputSections, OutputSection("CUSTOM", name, TRUE, 0)),
            i + 1, origSize)

\* The sections of `out` in the order addSections offers them, up to the
\* data section; only the code and data sections have relocations.
SectionsBeforeCustom(plan) ==
  LET synthetic(type, name) == OutputSection(type, name, name \notin plan.notNeeded, 0)
  IN << synthetic("CUSTOM", "dylink"), synthetic("TYPE", "type"),
        synthetic("IMPORT", "import"), synthetic("FUNCTION", "function"),
        synthetic("TABLE", "table"), synthetic("MEMORY", "memory"),
        synthetic("GLOBAL", "global"), synthetic("EVENT", "event"),
        synthetic("EXPORT", "export"), synthetic("ELEM", "elem"),
        synthetic("DATACOUNT", "datacount"),
        OutputSection("CODE", "code", "code" \notin plan.notNeeded, plan.codeRelocations),
        OutputSection("DATA", "data", "data" \notin plan.notNeeded, plan.dataRelocations) >>

addSectionsOf(plan) ==
  LET synthetic(name) == OutputSection("CUSTOM", name, name \notin plan.notNeeded, 0)
      upToData == addSectionsFrom(<<>>, SectionsBeforeCustom(plan))
      withCustom == createCustomSections(upToData, plan.customs)
      withLinking == addSection(withCustom, synthetic("linking"))
      withRelocs == IF plan.emitRelocs \/ plan.relocatable
                    THEN createRelocSections(withLinking, 1, Len(withLinking))
                    ELSE withLinking
  IN addSectionsFrom(withRelocs,
       <<synthetic("name"), synthetic("producers"), synthetic("target_features")>>)

SectionNames ==
  {"dylink", "type", "import", "function", "table", "memory", "global", "event",
   "export", "elem", "datacount", "code", "data", "linking", "name", "producers",
   "target_features"}

\* The custom sections of the input that calculateCustomSections keeps, with
\* their number of relocations.
CustomSectionKinds ==
  { [name |-> ".debug_info", relocations |-> 2],
    [name |-> "custom", relocations |-> 0],
    [name |-> "notes", relocations |-> 1] }

MaxNotNeeded == 2
MaxCustomSections == 2

InitSections ==
  /\ WriterOnlyInit
  /\ \E e \in BOOLEAN, r \in BOOLEAN, n \in {<<0, 0>>, <<3, 1>>} :
       writer = [state |-> "out", emitRelocs |-> e, relocatable |-> r,
                 codeRelocations |-> n[1], dataRelocations |-> n[2],
                 notNeeded |-> {}, customs |-> <<>>]

\* A section of `out` that reports itself not needed.
NotNeeded ==
  /\ writer.state = "out"
  /\ Cardinality(writer.notNeeded) < MaxNotNeeded
  /\ \E name \in SectionNames \ writer.notNeeded :
       writer' = [writer EXCEPT !.notNeeded = @ \cup {name}]
  /\ WriterOnly

\* An entry of customSectionMapping; the list is in the map's iteration order.
AddCustomSection ==
  /\ writer.state = "out"
  /\ Len(writer.customs) < MaxCustomSections
  /\ \E c \in CustomSectionKinds :
       /\ \A k \in 1..Len(writer.customs) : writer.customs[k].name # c.name
       /\ writer' = [writer EXCEPT !.customs = Append(@, c)]
  /\ WriterOnly

addSections ==
  /\ writer.state = "out"
  /\ writer' = [state |-> "sections", plan |-> writer,
                outputSections |-> addSectionsOf(writer)]
  /\ WriterOnly

NextSections == NotNeeded \/ AddCustomSection \/ addSections

SpecSections == InitSections /\ [][NextSections]_vars

-----------------------------------------------------------------------------
(* Writer::run: the checkpoints on the error count and the final commit.   *)

\* What FileOutputBuffer does for the .abi file: it is created and
\* committed, it cannot be created, or its commit fails.
AbiOutcomes == {"written", "create fails", "commit fails"}

\* The ABI of an object file: its JSON text, and whether ojson::parse
\* accepts it and the merger accepts it.  The merger is outside the source:
\* parse throws jsoncons::json_exception on "unparsable", merge throws
\* std::runtime_error on "conflict".
AbiKinds ==
  { [json |-> "a", kind |-> "ok"], [json |-> "b", kind |-> "ok"],
    [json |-> "x", kind |-> "unparsable"], [json |-> "c", kind |-> "conflict"] }

MaxAbis == 2

RECURSIVE AbiLists(_)
AbiLists(n) ==
  IF n = 0 THEN {<<>>}
  ELSE AbiLists(n - 1)
       \cup {Append(l, a) : l \in {m \in AbiLists(n - 1) : Len(m) = n - 1},
                            a \in AbiKinds}

\* The loop of writeABI from entry i on: the events so far and what was
\* thrown.
RECURSIVE mergeFrom_SkipsSeed(_, _, _)
mergeFrom_SkipsSeed(abis, i, events) ==
  IF i >= Len(abis) THEN [events |-> events, thrown |-> ""]
  ELSE IF abis[i].kind = "unparsable"
  THEN [events |-> events, thrown |-> "json_exception"]
  ELSE IF abis[i].kind = "conflict"
  THEN [events |-> events, thrown |-> "runtime_error"]
  ELSE mergeFrom_SkipsSeed(abis, i + 1, Append(events, <<"merge", abis[i].json>>))

RECURSIVE mergeFrom(_, _, _)
mergeFrom(abis, i, events) ==
  IF i > Len(abis) THEN [events |-> events, thrown |-> ""]
  ELSE IF abis[i].kind = "unparsable"
  THEN [events |-> events, thrown |-> "json_exception"]
  ELSE IF abis[i].kind = "conflict"
  THEN [events |-> events, thrown |-> "runtime_error"]
  ELSE mergeFrom(abis, i + 1, Append(events, <<"merge", abis[i].json>>))

\* writeABI: the events in order and how it ends: "returned", "error"
\* (error() was called), "logged" (json_exception caught) or "fatal".
writeABIOf(abis, outcome) ==
  IF abis = <<>> THEN [events |-> <<>>, end |-> "returned"]
  ELSE LET seed == abis[Len(abis)]
       IN IF seed.kind = "unparsable" THEN [events |-> <<>>, end |-> "logged"]
          ELSE LET merged == mergeFrom(abis, 1, <<<<"seed", seed.json>>>>)
               IN CASE merged.thrown = "json_exception" ->
                         [events |-> merged.events, end |-> "logged"]
                    [] merged.thrown = "runtime_error" ->
                         [events |-> merged.events, end |-> "fatal"]
                    [] outcome = "create fails" ->
                         [events |-> merged.events, end |-> "error"]
                    [] outcome = "commit fails" ->
                         [events |-> merged.events
                                       \o << <<"create", ".abi">>, <<"write", ".abi">> >>,
                          end |-> "fatal"]
                    [] OTHER ->
                         [events |-> merged.events
                                       \o << <<"create", ".abi">>, <<"write", ".abi">>,
                                             <<"commit", ".abi">> >>,
                          end |-> "returned"]

\* What the environment of a run decides: the error() calls of the steps up
\* to the dispatchers, whether the output buffer can be created, the error()
\* calls of the section writers, the ABIs of the objects, what happens to
\* the .abi file, and whether the commit of the output succeeds.
RunInputs ==
  { [earlyErrors |-> e, openFails |-> o, writeErrors |-> w, abis |-> a,
     abiOutcome |-> x, commitFails |-> c] :
      e \in {0, 1}, o \in BOOLEAN, w \in {0, 1}, a \in AbiLists(MaxAbis),
      x \in AbiOutcomes, c \in BOOLEAN }

InitRun ==
  /\ WriterOnlyInit
  /\ \E in \in RunInputs :
       writer = [state |-> "start", in |-> in, errorCount |-> 0,
                 buffer |-> FALSE, written |-> FALSE, events |-> <<>>,
                 committed |-> FALSE]

\* From the start of run to the first test of errorCount().
link ==
  /\ writer.state = "start"
  /\ LET errors == writer.errorCount + writer.in.earlyErrors
     IN writer' = [writer EXCEPT !.errorCount = errors,
                     !.state = IF errors # 0 THEN "returned" ELSE "linked"]
  /\ WriterOnly

\* calculateTypes to finalizeSections, then openFile and the second test.
openFile ==
  /\ writer.state = "linked"
  /\ writer' = IF writer.in.openFails
               THEN [writer EXCEPT !.errorCount = @ + 1, !.state = "returned"]
               ELSE [writer EXCEPT !.buffer = TRUE, !.state = "opened"]
  /\ WriterOnly

\* writeHeader and writeSections, then the third test.
writeSections ==
  /\ writer.state = "opened"
  /\ LET errors == writer.errorCount + writer.in.writeErrors
     IN writer' = [writer EXCEPT !.written = TRUE, !.errorCount = errors,
                     !.state = IF errors # 0 THEN "returned" ELSE "sections written"]
  /\ WriterOnly

writeABI ==
  /\ writer.state = "sections written"
  /\ LET abi == writeABIOf(writer.in.abis, writer.in.abiOutcome)
     IN writer' = [writer EXCEPT
                     !.events = @ \o abi.events,
                     !.errorCount = IF abi.end = "error" THEN @ + 1 ELSE @,
                     !.state = IF abi.end = "fatal" THEN "exited" ELSE "abi done"]
  /\ WriterOnly

\* buffer->commit(), the last statement of run.
commit ==
  /\ writer.state = "abi done"
  /\ writer' = IF writer.in.commitFails
               THEN [writer EXCEPT !.state = "exited"]
               ELSE [writer EXCEPT !.committed = TRUE, !.state = "returned",
                                   !.events = Append(@, <<"commit", ".wasm">>)]
  /\ WriterOnly

NextRun == link \/ openFile \/ writeSections \/ writeABI \/ commit

SpecRun == InitRun /\ [][NextRun]_vars

-----------------------------------------------------------------------------
(* Writer::run: the calls it makes, in order.                              *)

\* Writer::run with populateTargetFeatures after layoutMemory.
Statements_FeaturesAfterLayout ==
  << "createOutputSegments", "createSyntheticSections", "populateProducers",
     "calculateImports", "layoutMemory", "populateTargetFeatures",
     "addStartStopSymbols", "scanRelocations", "assignIndexes",
     "calculateInitFunctions", "createInitMemoryFunction",
     "createApplyRelocationsFunction", "createCallCtorsFunction",
     "createInitTLSFunction", "createDispatchFunction",
     "createCallDispatchFunction", "errorCount", "calculateTypes",
     "calculateExports", "calculateCustomSections", "populateSymtab",
     "addSections", "createHeader", "finalizeSections", "openFile",
     "errorCount", "writeHeader", "writeSections", "errorCount", "writeABI",
     "commit" >>

\* The statements of Writer::run after the setting of globalBase and
\* tableBase, in the order of the text.
Statements ==
  << "createOutputSegments", "createSyntheticSections", "populateProducers",
     "populateTargetFeatures", "calculateImports", "layoutMemory",
     "addStartStopSymbols", "scanRelocations", "assignIndexes",
     "calculateInitFunctions", "createInitMemoryFunction",
     "createApplyRelocationsFunction", "createCallCtorsFunction",
     "createInitTLSFunction", "createDispatchFunction",
     "createCallDispatchFunction", "errorCount", "calculateTypes",
     "calculateExports", "calculateCustomSections", "populateSymtab",
     "addSections", "createHeader", "finalizeSections", "openFile",
     "errorCount", "writeHeader", "writeSections", "errorCount", "writeABI",
     "commit" >>

\* The condition under which run makes the call.
IsCalled_Always(cfg, statement) == TRUE

IsCalled(cfg, statement) ==
  CASE statement = "addStartStopSymbols" -> ~cfg.relocatable
    [] statement = "createInitMemoryFunction" ->
         ~cfg.relocatable /\ cfg.passiveSegments
    [] statement = "createApplyRelocationsFunction" ->
         ~cfg.relocatable /\ cfg.isPic
    [] statement = "createCallCtorsFunction" -> ~cfg.relocatable
    [] statement = "createInitTLSFunction" ->
         ~cfg.relocatable /\ cfg.sharedMemory /\ ~cfg.shared
    [] statement = "createDispatchFunction" ->
         ~cfg.otherModel /\ cfg.entryIsUndefined
    [] statement = "createCallDispatchFunction" ->
         cfg.hasCalls /\ cfg.syncCallEntryIsUndefined
    [] OTHER -> TRUE

StepsOf_SealLast(statement) ==
  CASE statement = "assignIndexes" ->
         <<"addFunction", "addGlobal", "addEvent", "importSec->seal">>
    [] statement = "calculateImports" -> <<"addImport">>
    [] OTHER -> <<statement>>

\* What a call does, step by step: assignIndexes seals the import section
\* and then adds the functions, globals and events; calculateImports adds the
\* imports.
StepsOf(statement) ==
  CASE statement = "assignIndexes" ->
         <<"importSec->seal", "addFunction", "addGlobal", "addEvent">>
    [] statement = "calculateImports" -> <<"addImport">>
    [] OTHER -> <<statement>>

\* The call ends the link: fatal() or an exception leaves run.
Dies(cfg, statement) ==
  \/ statement = "createDispatchFunction" /\ cfg.dispatchDies
  \/ statement = "createCallDispatchFunction" /\ cfg.callDispatchDies

PipelineConfigs ==
  { [relocatable |-> r, isPic |-> p, passiveSegments |-> s, sharedMemory |-> m,
     shared |-> FALSE, otherModel |-> o, entryIsUndefined |-> e,
     syncCallEntryIsUndefined |-> y, hasCalls |-> c, dispatchDies |-> d,
     callDispatchDies |-> k, errors |-> n, abis |-> a] :
      r \in BOOLEAN, p \in BOOLEAN, s \in BOOLEAN, m \in BOOLEAN, o \in BOOLEAN,
      e \in BOOLEAN, y \in BOOLEAN, c \in BOOLEAN, d \in BOOLEAN, k \in BOOLEAN,
      n \in {0, 1}, a \in {0, 1} }

InitPipeline ==
  /\ WriterOnlyInit
  /\ \E cfg \in PipelineConfigs :
       writer = [state |-> "running", config |-> cfg, pc |-> 1, log |-> <<>>,
                 emitted |-> {}, abiFile |-> FALSE]

\* The next statement of run, other than a test of errorCount().
runStatement ==
  /\ writer.state = "running"
  /\ writer.pc <= Len(Statements)
  /\ LET statement == Statements[writer.pc]
         cfg == writer.config
     IN /\ statement # "errorCount"
        /\ writer' =
             IF ~IsCalled(cfg, statement) THEN [writer EXCEPT !.pc = @ + 1]
             ELSE IF Dies(cfg, statement)
             THEN [writer EXCEPT !.state = "exited",
                                 !.log = @ \o StepsOf(statement)]
             ELSE [writer EXCEPT
                     !.pc = @ + 1,
                     !.log = @ \o StepsOf(statement),
                     !.emitted = IF statement \in {"createDispatchFunction",
                                                   "createCallDispatchFunction"}
                                 THEN @ \cup {statement} ELSE @,
                     !.abiFile = @ \/ (statement = "writeABI" /\ cfg.abis > 0)]
  /\ WriterOnly

\* if (errorCount()) return;
testErrorCount ==
  /\ writer.state = "running"
  /\ writer.pc <= Len(Statements)
  /\ Statements[writer.pc] = "errorCount"
  /\ writer' = IF writer.config.errors # 0
               THEN [writer EXCEPT !.state = "returned"]
               ELSE [writer EXCEPT !.pc = @ + 1]
  /\ WriterOnly

\* The end of run.
return ==
  /\ writer.state = "running"
  /\ writer.pc > Len(Statements)
  /\ writer' = [writer EXCEPT !.state = "returned"]
  /\ WriterOnly

NextPipeline == runStatement \/ testErrorCount \/ return

SpecPipeline == InitPipeline /\ [][NextPipeline]_vars

-----------------------------------------------------------------------------
(* createHeader, finalizeSections and writeSections: the output buffer.    *)

\* sizeof(WasmMagic) and the four bytes of writeU32(WasmVersion).
WasmMagicSize == 4
HeaderSize == WasmMagicSize + 4

\* finalizeSections from section i on: each section gets the file size so
\* far as its offset, and the file grows by the section's size.
RECURSIVE finalizeFrom_SameOffset(_, _, _)
finalizeFrom_SameOffset(sections, i, fileSize) ==
  IF i > Len(sections) THEN [sections |-> sections, fileSize |-> fileSize]
  ELSE finalizeFrom_SameOffset([sections EXCEPT ![i].offset = HeaderSize], i + 1,
                               fileSize + sections[i].size)

RECURSIVE finalizeFrom(_, _, _)
finalizeFrom(sections, i, fileSize) ==
  IF i > Len(sections) THEN [sections |-> sections, fileSize |-> fileSize]
  ELSE finalizeFrom([sections EXCEPT ![i].offset = fileSize], i + 1,
                    fileSize + sections[i].size)

SectionSizes == {0, 1, 2}
MaxOutputSections == 3

InitFinalize ==
  /\ WriterOnlyInit
  /\ writer = [state |-> "sections", outputSections |-> <<>>, fileSize |-> 0]

\* One more needed section in outputSections, of the size its
\* finalizeContents will give it.
AddOutputSection ==
  /\ writer.state = "sections"
  /\ Len(writer.outputSections) < MaxOutputSections
  /\ \E size \in SectionSizes :
       writer' = [writer EXCEPT
                    !.outputSections = Append(@, [size |-> size, offset |-> 0])]
  /\ WriterOnly

\* createHeader, finalizeSections, openFile and writeHeader: the buffer has
\* fileSize bytes, and the header is copied to its start.
finalizeSections ==
  /\ writer.state = "sections"
  /\ LET final == finalizeFrom(writer.outputSections, 1, writer.fileSize + HeaderSize)
     IN writer' = [state |-> "writing",
                   outputSections |-> final.sections,
                   fileSize |-> final.fileSize,
                   done |-> [s \in 1..Len(final.sections) |-> 0],
                   buffer |-> [b \in 0..(final.fileSize - 1) |->
                                 IF b < HeaderSize THEN {0} ELSE {}]]
  /\ WriterOnly

\* One step of a section's writeTo, run in parallel with the others: the
\* section writes its next byte at buf + offset.
writeTo ==
  /\ writer.state = "writing"
  /\ \E s \in 1..Len(writer.outputSections) :
       /\ writer.done[s] < writer.outputSections[s].size
       /\ LET at == writer.outputSections[s].offset + writer.done[s]
          IN writer' = [writer EXCEPT
                          !.done[s] = @ + 1,
                          !.buffer = IF at \in DOMAIN @
                                     THEN [@ EXCEPT ![at] = @ \cup {s}]
                                     ELSE @ @@ (at :> {s})]
  /\ WriterOnly

NextFinalize == AddOutputSection \/ finalizeSections \/ writeTo

SpecFinalize == InitFinalize /\ [][NextFinalize]_vars

----------------------------------------------------------------------------
(* Links with the stack canary in which other imported functions come      *)
(* before current_time in the function index space.                        *)

\* How many more imported functions a link has ahead of current_time.
ImportsAhead == {0, 125, 126, 198, 253, 254, 300, 381, 382}

\* The symbol table of such a link: the indexes from current_time on move up.
SymbolTableWith(absent, ahead) ==
  LET table == SymbolTable(absent)
      at == table.index["current_time"]
  IN [index |-> [n \in DOMAIN table.index |->
                   IF table.index[n] >= at THEN table.index[n] + ahead
                   ELSE table.index[n]],
      size |-> table.size + ahead]

\* A link with config->stackCanary before its object files are known.
InitCanaryLink ==
  /\ objectFiles = <<>>
  /\ \E ahead \in ImportsAhead,
        absent \in {Hooks, Hooks \cup {"__wasm_call_ctors"}},
        d \in DataEnds :
       /\ symbols = SymbolTableWith(absent, ahead)
       /\ dataEndVA = d
  /\ stackCanary = TRUE
  /\ phase = "objects"
  /\ entryBody = <<>>
  /\ syncCallBody = <<>>
  /\ vm = NoRun
  /\ layout = NoLayout
  /\ writer = NoWriter

\* The emitters on these links.
SpecCanary == InitCanaryLink /\ [][NextEmit]_vars

----------------------------------------------------------------------------
(* What a run did, and what the link declared.                             *)

\* name and function of a declaration "name:function".
DeclName(d) == substr(d, 0, find(d, ":"))
DeclFunction(d) == substr(d, find(d, ":") + 1, npos)

ActionDecls == AllDecls(objectFiles, "actions")
NotifyDecls == AllDecls(objectFiles, "notify")
CallDecls == AllDecls(objectFiles, "calls")

\* The calls a run made, in order, each <<function, arguments>>.
RunCalls == vm.result.calls

Called(name, args) == \E j \in 1..Len(RunCalls) : RunCalls[j] = <<name, args>>

TimesCalled(name) == Cardinality({j \in 1..Len(RunCalls) : RunCalls[j][1] = name})

HandlerCalls == {j \in 1..Len(RunCalls) : IsHandler(RunCalls[j][1])}

IsApply == vm.fn = "apply"
Receiver == vm.args[1]
Code == vm.args[2]
Action == vm.args[3]

----------------------------------------------------------------------------
(* C1 *)

\* C1: for every combination of actions, notification handlers, hooks and
\* canary, each of the two emitted dispatcher bodies (apply and sync_call) is
\* well nested: every IF has one END and at most one ELSE, the depth never
\* drops below the function block and the last END closes the function.
C1_BodiesWellNested ==
  /\ entryBody # <<>> => WellNested(entryBody)
  /\ syncCallBody # <<>> => WellNested(syncCallBody)

----------------------------------------------------------------------------
(* C2 *)

\* C2: apply(receiver, code, action) with code = receiver and action the
\* encoded name of a registered action name:T, pre_dispatch absent or
\* returning non-zero, calls T exactly once with (receiver, code), calls no
\* other action or notification handler and does not call
\* eosio_assert_code.
C2_RegisteredActionCallsItsHandler ==
  (IsApply /\ Code = Receiver /\ vm.env.pre_ret # 0) =>
    \A i \in 1..Len(ActionDecls) :
       LET T == DeclFunction(ActionDecls[i])
       IN Action = string_to_name(DeclName(ActionDecls[i])) =>
            /\ TimesCalled(T) = 1
            /\ Called(T, <<Receiver, Code>>)
            /\ \A j \in HandlerCalls : RunCalls[j][1] = T
            /\ TimesCalled("eosio_assert_code") = 0

----------------------------------------------------------------------------
(* C3 *)

\* C3: apply with code = receiver and an action equal to none of the
\* registered names, pre_dispatch absent or returning non-zero: when
\* receiver # eosio it calls eosio_assert_code(0, 8000000000000000000) and no
\* action handler; when receiver = eosio the assert is not called and
\* post_dispatch(receiver, code, action) is called iff post_dispatch is
\* present.
C3_UnknownAction ==
  (/\ IsApply /\ Code = Receiver /\ vm.env.pre_ret # 0
   /\ \A i \in 1..Len(ActionDecls) : Action # string_to_name(DeclName(ActionDecls[i])))
  => IF Receiver # eosio
     THEN /\ Called("eosio_assert_code", <<0, EOSIO_ERROR_NO_ACTION>>)
          /\ HandlerCalls = {}
     ELSE /\ ~Called("eosio_assert_code", <<0, EOSIO_ERROR_NO_ACTION>>)
          /\ Called("post_dispatch", <<Receiver, Code, Action>>)
               <=> symtab_find("post_dispatch") # NoSym

----------------------------------------------------------------------------
(* C5 *)

\* code, action and function of a notification "code::action:function".
NotifyAction(d) == DeclName(NotifyRest(d))
NotifyFunction(d) == DeclFunction(NotifyRest(d))

\* The encoded names of the concrete (non-wildcard) codes registered.
ConcreteCodes ==
  { string_to_name(NotifyCodeName(NotifyDecls[i])) :
      i \in {k \in 1..Len(NotifyDecls) : NotifyCodeName(NotifyDecls[k]) # "*"} }

\* C5: in the notification branch (receiver # code) a handler C::A:fn with a
\* concrete code C is called exactly when code = name(C) and action =
\* name(A); a wildcard handler *::A:fn is called exactly when code equals
\* none of the concrete code names and action = name(A); at most one handler
\* is called per invocation.
C5_NotificationDispatch ==
  (IsApply /\ Receiver # Code) =>
    /\ \A i \in 1..Len(NotifyDecls) :
         LET d == NotifyDecls[i]
         IN TimesCalled(NotifyFunction(d)) > 0 <=>
              IF NotifyCodeName(d) # "*"
              THEN /\ Code = string_to_name(NotifyCodeName(d))
                   /\ Action = string_to_name(NotifyAction(d))
              ELSE /\ Code \notin ConcreteCodes
                   /\ Action = string_to_name(NotifyAction(d))
    /\ Cardinality(HandlerCalls) <= 1

----------------------------------------------------------------------------
(* C6 *)

\* Some registered notification is for eosio::onerror.
OnerrorRegistered ==
  \E i \in 1..Len(NotifyDecls) :
     /\ NotifyCodeName(NotifyDecls[i]) = "eosio"
     /\ NotifyAction(NotifyDecls[i]) = "onerror"

\* The body holds the constant 8000000000000000001 of the onerror guard.
OnerrorGuardEmitted ==
  \E i \in 1..Len(entryBody) : entryBody[i] = InsI64Const(EOSIO_ERROR_ONERROR)

\* C6: when no notification handler is registered for eosio::onerror, apply
\* with receiver # code, code = eosio and action = onerror calls
\* eosio_assert_code(0, 8000000000000000001); when such a handler is
\* registered the guard is not emitted and that assert code is never called.
C6_OnerrorGuard ==
  /\ (/\ IsApply /\ ~OnerrorRegistered /\ Receiver # Code
      /\ Code = eosio /\ Action = string_to_name("onerror"))
     => Called("eosio_assert_code", <<0, EOSIO_ERROR_ONERROR>>)
  /\ (entryBody # <<>> /\ OnerrorRegistered) => ~OnerrorGuardEmitted
  /\ (IsApply /\ OnerrorRegistered)
     => ~Called("eosio_assert_code", <<0, EOSIO_ERROR_ONERROR>>)

----------------------------------------------------------------------------
(* C8 *)

CanaryAddress == dataEndVA + 8

\* C8: with stackCanary the prologue stores current_time() into global
\* __stack_canary and writes it as an i64 at address __data_end + 8; the
\* epilogue reads the same address, and eosio_assert_code(0,
\* 8000000000000000002) is called exactly when the 8 bytes at __data_end + 8
\* differ from __stack_canary.
C8_StackCanary ==
  (IsApply /\ stackCanary) =>
    /\ vm.result.globals[StackCanaryGlobalIndex] = vm.env.now
    /\ Len(vm.result.stores) >= 1
    /\ vm.result.stores[1] = <<CanaryAddress, vm.env.now>>
    /\ \A j \in 1..Len(vm.result.loads) : vm.result.loads[j] = CanaryAddress
    /\ Called("eosio_assert_code", <<0, EOSIO_CANARY_FAILURE>>)
         <=> LoadI64(vm.result.mem, CanaryAddress)
               # vm.result.globals[StackCanaryGlobalIndex]

----------------------------------------------------------------------------
(* C7 *)

IsSyncCall == vm.fn = "sync_call"

\* The registered calls whose hash_id is the name in the header.
MatchingCalls ==
  {i \in 1..Len(CallDecls) : to_hash_id(DeclName(CallDecls[i])) = to_hash_id(vm.name)}

\* C7: sync_call returns -10000 whenever the version at header+0 is non-zero
\* (even if the name would match), -10001 when the version is zero and the
\* name at header+8 is the hash_id of no registered call, and 0 after calling
\* target(sender, receiver, data_size, data) of the first registered call
\* whose hash_id matches.
C7_SyncCallReturnCodes ==
  IsSyncCall =>
    IF vm.version # 0
    THEN vm.result.status = "returned"
         /\ vm.result.ret = <<SYNC_CALL_UNSUPPORTED_HEADER_VERSION>>
    ELSE IF MatchingCalls = {}
    THEN vm.result.status = "returned"
         /\ vm.result.ret = <<SYNC_CALL_UNKNOWN_FUNCTION>>
    ELSE LET first == CHOOSE i \in MatchingCalls : \A j \in MatchingCalls : i <= j
         IN /\ vm.result.status = "returned"
            /\ vm.result.ret = <<SYNC_CALL_EXECUTED>>
            /\ Called(DeclFunction(CallDecls[first]),
                      <<vm.args[1], vm.args[2], vm.args[3], vm.env.data>>)
            /\ Cardinality(HandlerCalls) = 1

----------------------------------------------------------------------------
(* C4 *)

\* Where the action dispatch starts in the body: after the first
\* "local.get 0; local.get 1; i64.eq; if" (IF code==receiver); 0 if absent.
ActionPartStart(body) ==
  LET starts == {i \in 1..(Len(body) - 3) :
                   /\ body[i] = InsU(OPCODE_GET_LOCAL, 0)
                   /\ body[i + 1] = InsU(OPCODE_GET_LOCAL, 1)
                   /\ body[i + 2] = Ins0(OPCODE_I64_EQ)
                   /\ body[i + 3] = InsIf}
  IN IF starts = {} THEN 0
     ELSE (CHOOSE i \in starts : \A j \in starts : i <= j) + 4

\* The action dispatch: the instructions of the IF code==receiver branch up
\* to its ELSE.
ActionPart(body) ==
  IF ActionPartStart(body) = 0 THEN <<>>
  ELSE SubSeq(body, ActionPartStart(body),
              BlockBoundary(body, ActionPartStart(body), 0, TRUE) - 1)

\* The places of a part where an equality test of the action starts:
\* i64.const name; local.get 2; i64.eq; if; local.get 0; local.get 1; call f.
TestPlaces(part) ==
  {i \in 1..(Len(part) - 6) :
     /\ part[i][1] = OPCODE_I64_CONST
     /\ part[i + 1] = InsU(OPCODE_GET_LOCAL, 2)
     /\ part[i + 2] = Ins0(OPCODE_I64_EQ)
     /\ part[i + 3] = InsIf
     /\ part[i + 6][1] = OPCODE_CALL}

\* The tests of the action dispatch of the entry function.
ActionTests == TestPlaces(ActionPart(entryBody))
TestName(i) == ActionPart(entryBody)[i][2]
TestFunction(i) == FuncName(DecodeULEB128(ActionPart(entryBody)[i + 6][2]))

\* The first declaration, in object-iteration order, of the action name of d.
FirstDeclOf(d) ==
  ActionDecls[CHOOSE i \in 1..Len(ActionDecls) :
                /\ DeclName(ActionDecls[i]) = DeclName(d)
                /\ \A j \in 1..(i - 1) : DeclName(ActionDecls[j]) # DeclName(d)]

\* C4 as claimed: action dispatch emits at most one equality test per unique
\* action name across all object files, and the function bound to an action
\* name is the one of its first occurrence in object-iteration order, also
\* when two objects declare the same action name with different functions.
C4_OneTestPerActionName ==
  entryBody # <<>> =>
    \A k \in 1..Len(ActionDecls) :
       LET d == ActionDecls[k]
           tests == {i \in ActionTests : TestName(i) = string_to_name(DeclName(d))}
       IN /\ Cardinality(tests) <= 1
          /\ \A i \in tests : TestFunction(i) = DeclFunction(FirstDeclOf(d))

\* C4 as amended: action dispatch emits exactly one equality test per
\* distinct declaration string name:function (a string repeated across
\* object files is tested once) and no other test; an action name declared
\* with different functions gets one test per function, and the first test of
\* the chain for that name calls the function of the name's first
\* declaration in object-iteration order.
C4_OneTestPerDeclaration ==
  entryBody # <<>> =>
    /\ \A k \in 1..Len(ActionDecls) :
         LET d == ActionDecls[k]
             tests == {i \in ActionTests : TestName(i) = string_to_name(DeclName(d))}
         IN /\ Cardinality({i \in tests : TestFunction(i) = DeclFunction(d)}) = 1
            /\ tests # {}
            /\ TestFunction(CHOOSE i \in tests : \A j \in tests : i <= j)
                 = DeclFunction(FirstDeclOf(d))
    /\ \A i \in ActionTests :
         \E k \in 1..Len(ActionDecls) :
            /\ TestName(i) = string_to_name(DeclName(ActionDecls[k]))
            /\ TestFunction(i) = DeclFunction(ActionDecls[k])

\* A link where one declaration string comes from two object files and one
\* action name is declared with two functions, and the body is emitted.
C4_Witness ==
  /\ entryBody # <<>>
  /\ \E i, j \in 1..Len(ActionDecls) : i # j /\ ActionDecls[i] = ActionDecls[j]
  /\ \E i, j \in 1..Len(ActionDecls) :
        /\ DeclName(ActionDecls[i]) = DeclName(ActionDecls[j])
        /\ DeclFunction(ActionDecls[i]) # DeclFunction(ActionDecls[j])
  /\ Cardinality(ActionTests) = 3

----------------------------------------------------------------------------
(* The layout layoutMemory produced.                                       *)

LaidOut == phase = "laidout"

\* a + b as a number, not reduced modulo 2^32, and the order of such sums.
Sum(a, b) ==
  LET lo == a[2] + b[2]
      hi == a[1] + b[1] + lo \div Limb
  IN <<hi \div Limb, hi % Limb, lo % Limb>>

LessWide(x, y) ==
  \/ x[1] < y[1]
  \/ x[1] = y[1] /\ x[2] < y[2]
  \/ x[1] = y[1] /\ x[2] = y[2] /\ x[3] < y[3]

\* va is a multiple of 2^shift.
MultipleOfPow2(va, shift) ==
  IF shift <= 16 THEN va[2] % Pow2(shift) = 0
  ELSE va[2] = 0 /\ va[1] % Pow2(shift - 16) = 0

\* [a, a + m) and [b, b + n) have an address in common.
RangesOverlap(a, m, b, n) ==
  LessWide(Widen(a), Sum(b, n)) /\ LessWide(Widen(b), Sum(a, m))

SegmentIndexes == 1..Len(layout.segments)

SegmentsAligned ==
  \A i \in SegmentIndexes :
    MultipleOfPow2(layout.startVA[i], layout.segments[i].alignment)

SegmentsDisjoint ==
  \A i, j \in SegmentIndexes :
    i < j => ~RangesOverlap(layout.startVA[i], layout.segments[i].size,
                            layout.startVA[j], layout.segments[j].size)

SegmentsInOrder ==
  \A i, j \in SegmentIndexes :
    i < j => ~Less32(layout.startVA[j], layout.startVA[i])

SegmentsClearOfStack ==
  (layout.config.stackFirst /\ layout.stackBase # Unset) =>
    \A i \in SegmentIndexes :
      ~RangesOverlap(layout.startVA[i], layout.segments[i].size,
                     layout.stackBase, layout.config.zStackSize)

\* C9: after layoutMemory every segment starts at a multiple of its
\* alignment, no two segments overlap, the segments lie at non-decreasing
\* addresses in creation order, and with the stack placed first no segment
\* overlaps the stack.
C9_SegmentsAlignedDisjointOrdered ==
  LaidOut =>
    /\ SegmentsAligned
    /\ SegmentsDisjoint
    /\ SegmentsInOrder
    /\ SegmentsClearOfStack

\* C10: after layoutMemory, in every configuration, __heap_base lies at or
\* above __data_end plus the stack size (plus nothing when the stack was
\* placed first).
C10_HeapBaseAfterStack ==
  (LaidOut /\ layout.heapBaseVA # Unset /\ layout.dataEndVA # Unset) =>
    ~LessWide(Widen(layout.heapBaseVA),
              Sum(layout.dataEndVA,
                  IF layout.config.stackFirst THEN U32(0)
                  ELSE layout.config.zStackSize))

----------------------------------------------------------------------------
(* C11 *)

\* The link of the example: --stack-first, a stack of 65536 bytes,
\* --global-base=1024, neither relocatable nor PIC, the symbols defined.
StackFirstExample ==
  /\ LaidOut
  /\ layout.config.stackFirst
  /\ ~layout.config.relocatable /\ ~layout.config.isPic
  /\ layout.config.hasSymbols
  /\ layout.config.zStackSize = U32(65536)
  /\ layout.config.globalBase = U32(1024)

FirstSegmentAfterStack ==
  layout.segments # <<>> =>
    layout.startVA[1] = Trunc32(alignTo(U32(65536), layout.segments[1].alignment))

\* C11 as claimed: with stackFirst, zStackSize = 65536 and globalBase =
\* 1024, for every set of output segments the initial __stack_pointer is
\* 65536, the first segment begins at 65536 rounded up to its alignment, and
\* __data_end >= 66560.
C11_DataEndAboveStackPlusGlobalBase ==
  StackFirstExample =>
    /\ layout.stackPointer = U32(65536)
    /\ FirstSegmentAfterStack
    /\ ~Less32(layout.dataEndVA, U32(66560))

\* C11 as amended: in that link the initial __stack_pointer is 65536, the
\* first segment begins at 65536 rounded up to its alignment, and
\* __data_end is the end of the last segment, or 65536 when there is no
\* segment; globalBase only becomes the address of __global_base.
C11_DataEndIsEndOfLastSegment ==
  StackFirstExample =>
    /\ layout.stackPointer = U32(65536)
    /\ FirstSegmentAfterStack
    /\ layout.dataEndVA =
         IF layout.segments = <<>> THEN U32(65536)
         ELSE Add32(layout.startVA[Len(layout.segments)],
                    layout.segments[Len(layout.segments)].size)
    /\ layout.globalBaseVA = U32(1024)

\* The example link with two segments that end below 66560.
C11_Witness ==
  /\ StackFirstExample
  /\ Len(layout.segments) = 2
  /\ Less32(layout.dataEndVA, U32(66560))
  /\ Less32(U32(65536), layout.dataEndVA)

----------------------------------------------------------------------------
(* C12 *)

\* n is not a multiple of 2^shift, for shift <= 16.
Misaligned(n, shift) == n[2] % Pow2(shift) # 0

Below(a, b) == LessWide(Widen(a), Widen(b))

\* memoryPtr after the data and the stack were laid out, and at the end.
EndOfDataAndStack ==
  IF layout.config.shared THEN layout.ptrs[Len(layout.ptrs)]
  ELSE layout.ptrs[Len(layout.ptrs) - 1]

FinalMemoryPtr == layout.memSize

MaxEnforced == layout.config.maxMemory # U32(0) \/ layout.config.sharedMemory

\* ceil(n / 65536).
PagesOf(n) == n[1] + (IF n[2] = 0 THEN 0 ELSE 1)

\* placeStack got past its first test.
StackPlaced ==
  /\ ~layout.config.relocatable /\ ~layout.config.isPic
  /\ layout.config.stackFirst \/ ~layout.config.shared

\* C12 as claimed: layoutMemory reports an error if and only if zStackSize
\* is not a multiple of 16, or initialMemory is non-zero and not a multiple
\* of 65536 or smaller than the end of the laid-out data and stack, or
\* maxMemory is enforced and not a multiple of 65536 or smaller than that
\* end; with no error the page count is ceil(memoryPtr / 65536).
C12_ErrorsIffMisconfigured ==
  LaidOut =>
    /\ layout.errors # <<>> <=>
         \/ Misaligned(layout.config.zStackSize, 4)
         \/ /\ layout.config.initialMemory # U32(0)
            /\ \/ Misaligned(layout.config.initialMemory, 16)
               \/ Below(layout.config.initialMemory, EndOfDataAndStack)
         \/ /\ MaxEnforced
            /\ \/ Misaligned(layout.config.maxMemory, 16)
               \/ Below(layout.config.maxMemory, EndOfDataAndStack)
    /\ layout.errors = <<>> => layout.numMemoryPages = PagesOf(FinalMemoryPtr)

\* C12 as amended: a shared link reports no error from the memory checks
\* and sets no page count; the stack size is checked only where the stack is
\* placed; maxMemory is compared with memoryPtr after initialMemory has
\* raised it; the page count is ceil(memoryPtr / 65536) with or without
\* errors.
C12_ErrorsIffChecked ==
  LaidOut =>
    /\ layout.errors # <<>> <=>
         \/ StackPlaced /\ Misaligned(layout.config.zStackSize, 4)
         \/ /\ ~layout.config.shared
            /\ layout.config.initialMemory # U32(0)
            /\ \/ Misaligned(layout.config.initialMemory, 16)
               \/ Below(layout.config.initialMemory, EndOfDataAndStack)
         \/ /\ ~layout.config.shared
            /\ MaxEnforced
            /\ \/ Misaligned(layout.config.maxMemory, 16)
               \/ Below(layout.config.maxMemory, FinalMemoryPtr)
    /\ ~layout.config.shared =>
         /\ layout.numMemoryPages = PagesOf(FinalMemoryPtr)
         /\ FinalMemoryPtr =
              IF /\ layout.config.initialMemory # U32(0)
                 /\ ~Below(layout.config.initialMemory, EndOfDataAndStack)
              THEN layout.config.initialMemory
              ELSE EndOfDataAndStack
    /\ layout.config.shared => layout.numMemoryPages = Unset

\* A link whose only error is a maximum below the initial memory, although
\* the maximum is not below the end of the data and the stack.
C12_Witness ==
  /\ LaidOut
  /\ layout.errors = <<"maximum memory too small">>
  /\ ~Below(layout.config.maxMemory, EndOfDataAndStack)
  /\ layout.segments # <<>>

----------------------------------------------------------------------------
(* C13, C14 *)

SegmentsMade == writer.state = "segments"

\* Names of input segments the naming is checked on.
SegmentNames ==
  { ".data", ".data.foo", ".data.", ".datax", ".tdata", ".tdata.x", ".tdatax",
    ".tbss", ".tbss.y", ".text", ".text.main", ".bss", ".bss.z", ".rodata",
    ".rodata.str", ".rodata.tdata", "custom", "" }

\* name begins with prefix, letter by letter.
BeginsWith(name, prefix) ==
  /\ Len(name) >= Len(prefix)
  /\ \A i \in 1..Len(prefix) : SubSeq(name, i, i) = SubSeq(prefix, i, i)

\* The first matching rule of the claim.
FirstMatchingRule(cfg, name) ==
  CASE cfg.isPic -> ".data"
    [] ~cfg.isPic /\ (BeginsWith(name, ".tdata") \/ BeginsWith(name, ".tbss")) -> ".tdata"
    [] OTHER ->
         IF cfg.mergeDataSegments /\ BeginsWith(name, ".text.") THEN ".text"
         ELSE IF cfg.mergeDataSegments /\ BeginsWith(name, ".data.") THEN ".data"
         ELSE IF cfg.mergeDataSegments /\ BeginsWith(name, ".bss.") THEN ".bss"
         ELSE IF cfg.mergeDataSegments /\ BeginsWith(name, ".rodata.") THEN ".rodata"
         ELSE name

\* The live input segments, in object-file order.
LiveInputs ==
  {seg \in UNION {{f.segments[i] : i \in 1..Len(f.segments)} :
                    f \in {writer.files[k] : k \in 1..Len(writer.files)}} :
     seg.live}

\* The output segments that hold an input segment.
HoldersOf(seg) ==
  {i \in 1..Len(writer.segments) :
     \E j \in 1..Len(writer.segments[i].inputSegments) :
        writer.segments[i].inputSegments[j] = seg}

\* C13: the output-segment name of an input segment is given by the first
\* matching rule (PIC -> .data; .tdata or .tbss prefix -> .tdata; with
\* merging, .text. .data. .bss. .rodata. prefixes -> .text .data .bss
\* .rodata; otherwise unchanged), the mapping applied to its own result gives
\* the same name, and createOutputSegments puts every live input segment in
\* the output segment of that name.
C13_OutputSegmentName ==
  writer.state \in {"files", "segments"} =>
    /\ \A name \in SegmentNames :
         /\ getOutputDataSegmentName(writer.config, name)
              = FirstMatchingRule(writer.config, name)
         /\ getOutputDataSegmentName(writer.config,
              getOutputDataSegmentName(writer.config, name))
              = getOutputDataSegmentName(writer.config, name)
    /\ SegmentsMade =>
         \A seg \in LiveInputs :
            /\ Cardinality(HoldersOf(seg)) = 1
            /\ \A i \in HoldersOf(seg) :
                 writer.segments[i].name = FirstMatchingRule(writer.config, seg.name)

\* A non-PIC link with merging whose .tbss.y and .data.foo were placed.
C13_Witness ==
  /\ SegmentsMade
  /\ ~writer.config.isPic /\ writer.config.mergeDataSegments
  /\ \E seg \in LiveInputs : seg.name = ".tbss.y"
  /\ \E seg \in LiveInputs : seg.name = ".data.foo"
  /\ \E i \in 1..Len(writer.segments) : writer.segments[i].name = ".tdata"

\* The live thread-local input segments.
LiveTlsInputs ==
  {seg \in LiveInputs : BeginsWith(seg.name, ".tdata") \/ BeginsWith(seg.name, ".tbss")}

IsPassive(i) == writer.segments[i].initFlags = WASM_SEGMENT_IS_PASSIVE

PassiveIffConfiguredOrTdata ==
  \A i \in 1..Len(writer.segments) :
     IsPassive(i) <=>
       (writer.config.passiveSegments \/ writer.segments[i].name = ".tdata")

\* All of segs are in one output segment, called name.
InOneSegmentNamed(segs, name) ==
  /\ \A seg \in segs : Cardinality(HoldersOf(seg)) = 1
  /\ \A a, b \in segs : HoldersOf(a) = HoldersOf(b)
  /\ \A seg \in segs : \A i \in HoldersOf(seg) : writer.segments[i].name = name

\* C14 as claimed: after createOutputSegments, in every configuration, all
\* live input segments named .tdata* or .tbss* are in one output segment,
\* named .tdata and passive; and an output segment is passive if and only
\* if passiveSegments is set or its name is .tdata.
C14_TlsSegmentInEveryConfiguration ==
  SegmentsMade =>
    /\ InOneSegmentNamed(LiveTlsInputs, ".tdata")
    /\ \A seg \in LiveTlsInputs : \A i \in HoldersOf(seg) : IsPassive(i)
    /\ PassiveIffConfiguredOrTdata

\* C14 as amended: that holds of every link that is not PIC; in a PIC link
\* all live input segments, thread-local or not, are in one output segment
\* named .data, passive only with passiveSegments.  In both, an output
\* segment is passive if and only if passiveSegments is set or its name is
\* .tdata.
C14_TlsSegmentUnlessPic ==
  SegmentsMade =>
    /\ ~writer.config.isPic =>
         /\ InOneSegmentNamed(LiveTlsInputs, ".tdata")
         /\ \A seg \in LiveTlsInputs : \A i \in HoldersOf(seg) : IsPassive(i)
    /\ writer.config.isPic =>
         /\ InOneSegmentNamed(LiveInputs, ".data")
         /\ \A i \in 1..Len(writer.segments) :
              IsPassive(i) <=> writer.config.passiveSegments
    /\ PassiveIffConfiguredOrTdata

\* A PIC link without passiveSegments whose .tdata.x and .tbss.y went into
\* the one segment .data.
C14_Witness ==
  /\ SegmentsMade
  /\ writer.config.isPic /\ ~writer.config.passiveSegments
  /\ \E a, b \in LiveTlsInputs : a.name = ".tdata.x" /\ b.name = ".tbss.y"
  /\ Len(writer.segments) = 1


-----------------------------------------------------------------------------
(* The target features: what populateTargetFeatures reported.              *)

FeaturesDone == writer.state = "features"

\* File i lists the feature with one of the prefixes.
Lists(file, name, prefixes) ==
  \E j \in 1..Len(file.features) :
    file.features[j].name = name /\ file.features[j].prefix \in prefixes

\* The files, by index, that list the feature with one of the prefixes.
Listing(files, name, prefixes) ==
  {i \in 1..Len(files) : Lists(files[i], name, prefixes)}

\* The first of a non-empty set of file indexes.
FirstOf(indexes) == CHOOSE i \in indexes : \A k \in indexes : i <= k

FeatureNames == {"atomics", "bulk-memory", "simd128"}
UsedPrefixes == {WASM_FEATURE_PREFIX_USED, WASM_FEATURE_PREFIX_REQUIRED}

AtomicsWithoutSharedMemory ==
  /\ FeaturesDone
  /\ Listing(writer.files, "atomics", UsedPrefixes) # {}
  /\ ~writer.config.sharedMemory

\* C15 as stated: an object file using or requiring atomics without shared
\* memory is an error in every configuration of features and checkFeatures.
C15_AtomicsErrorInEveryConfiguration ==
  AtomicsWithoutSharedMemory => writer.out.errors # {}

\* C15: an object file using or requiring atomics without shared memory is an
\* error, except that nothing is reported when the feature set is given by the
\* user and checkFeatures is off; when the features are inferred the error is
\* the shared-memory one naming the first file that uses atomics, whatever
\* checkFeatures is.
C15_AtomicsErrorUnlessUnchecked ==
  AtomicsWithoutSharedMemory =>
    IF writer.config.features.hasValue /\ ~writer.config.checkFeatures
    THEN writer.out.errors = {}
    ELSE /\ writer.out.errors # {}
         /\ ~writer.config.features.hasValue =>
              FeatureError("atomics needs shared memory", "atomics", 0,
                FirstOf(Listing(writer.files, "atomics", UsedPrefixes)))
                \in writer.out.errors

C15_Witness ==
  /\ AtomicsWithoutSharedMemory
  /\ ~writer.config.features.hasValue
  /\ ~writer.config.checkFeatures
  /\ Len(writer.files) = 2
  /\ FirstOf(Listing(writer.files, "atomics", UsedPrefixes)) = 2
  /\ writer.out.errors =
       {FeatureError("atomics needs shared memory", "atomics", 0, 2)}

\* The map a loop over the files builds for the prefixes: each feature with
\* the first file that lists it.
FirstListing(files, prefixes) ==
  {<<n, FirstOf(Listing(files, n, prefixes))>> :
     n \in {m \in FeatureNames : Listing(files, m, prefixes) # {}}}

NotDisallowedPrefixes == {"+", "=", "?"}

\* The errors of the last loop: a feature a file lists as other than
\* disallowed that some file disallows, and a feature some file requires
\* that a file does not list as other than disallowed.
ConstraintErrors(files) ==
  {FeatureError("disallowed", n, i,
     FirstOf(Listing(files, n, {WASM_FEATURE_PREFIX_DISALLOWED}))) :
       <<n, i>> \in {p \in FeatureNames \X (1..Len(files)) :
          /\ Lists(files[p[2]], p[1], NotDisallowedPrefixes)
          /\ Listing(files, p[1], {WASM_FEATURE_PREFIX_DISALLOWED}) # {}}}
  \cup
  {FeatureError("missing", n, i,
     FirstOf(Listing(files, n, {WASM_FEATURE_PREFIX_REQUIRED}))) :
       <<n, i>> \in {p \in FeatureNames \X (1..Len(files)) :
          /\ ~Lists(files[p[2]], p[1], NotDisallowedPrefixes)
          /\ Listing(files, p[1], {WASM_FEATURE_PREFIX_REQUIRED}) # {}}}

ConstraintsReported ==
  /\ ConstraintErrors(writer.files) \subseteq writer.out.errors
  /\ writer.out.required =
       FirstListing(writer.files, {WASM_FEATURE_PREFIX_REQUIRED})
  /\ writer.out.disallowed =
       FirstListing(writer.files, {WASM_FEATURE_PREFIX_DISALLOWED})

\* C16 as stated: for every set of object files the disallowed and missing
\* features are reported, and the maps hold the first declaring file.
C16_ConstraintErrorsAlways == FeaturesDone => ConstraintsReported

\* C16: with checkFeatures on, a feature a file uses or requires that some
\* file disallows is an error naming both files, a required feature a file
\* omits is an error, and the required and disallowed maps hold the first file
\* declaring each feature; with checkFeatures off neither kind of error is
\* reported.
C16_ConstraintErrorsWhenChecked ==
  FeaturesDone =>
    IF writer.config.checkFeatures
    THEN ConstraintsReported
    ELSE \A e \in writer.out.errors : e.kind \notin {"disallowed", "missing"}

C16_Witness ==
  /\ FeaturesDone
  /\ writer.config.checkFeatures
  /\ FeatureError("disallowed", "atomics", 1, 2) \in writer.out.errors
  /\ FeatureError("missing", "bulk-memory", 2, 1) \in writer.out.errors
  /\ writer.out.disallowed = {<<"atomics", 2>>}

-----------------------------------------------------------------------------
(* The export section.                                                     *)

ExportsDone == writer.state = "exports"

\* The entries of the export list that stand for symbol i.
EntriesOf(i) ==
  {k \in 1..Len(writer.out.exports) : writer.out.exports[k].sym = i}

\* Symbol i is defined, live, not local, and not hidden or under exportAll,
\* and is not a mutable global.
Exportable(i) ==
  LET sym == writer.symbols[i]
  IN /\ sym.defined /\ sym.live /\ ~sym.local
     /\ ~sym.hidden \/ writer.config.exportAll
     /\ ~(sym.kind = "global" /\ sym.mutable)

\* The number of data symbols with an export entry before entry k.
DataExportsBefore(k) ==
  Cardinality({j \in 1..(k - 1) :
     /\ writer.out.exports[j].sym # 0
     /\ writer.symbols[writer.out.exports[j].sym].kind = "data"})

\* C17: without relocatable, each exportable symbol has exactly one export
\* entry and every other symbol none, and the k-th exported data symbol has
\* the global index numImportedGlobals + numDefinedGlobals + k; with
\* relocatable the export list is empty.
C17_OneExportPerExportableSymbol ==
  ExportsDone =>
    IF writer.config.relocatable
    THEN writer.out.exports = <<>>
    ELSE /\ \A i \in 1..Len(writer.symbols) :
              Cardinality(EntriesOf(i)) = IF Exportable(i) THEN 1 ELSE 0
         /\ \A k \in 1..Len(writer.out.exports) :
              LET e == writer.out.exports[k]
              IN e.sym # 0 /\ writer.symbols[e.sym].kind = "data" =>
                   /\ e.kind = "global"
                   /\ e.index = writer.config.numImportedGlobals
                                  + writer.config.numDefinedGlobals
                                  + DataExportsBefore(k)

C17_Witness ==
  /\ ExportsDone
  /\ ~writer.config.relocatable
  /\ writer.config.exportAll
  /\ writer.config.numDefinedGlobals = 2
  /\ Len(writer.symbols) = 3
  /\ writer.symbols[1].kind = "data" /\ writer.symbols[1].hidden
  /\ writer.symbols[2].kind = "global" /\ writer.symbols[2].mutable
  /\ writer.symbols[3].kind = "data" /\ ~writer.symbols[3].hidden
  /\ \E k \in 1..Len(writer.out.exports) :
       writer.out.exports[k] = WasmExport(3, "d", "global", 4)

-----------------------------------------------------------------------------
(* The body of __wasm_call_ctors.                                          *)

CtorsCreated == writer.state = "ctors" /\ writer.created

\* The function indexes the body calls, in order, read back from its bytes.
CalledBy(body) ==
  LET calls == SelectSeq(body, LAMBDA ins : ins[1] = OPCODE_CALL)
  IN [k \in 1..Len(calls) |-> DecodeULEB128(calls[k][2])]

\* The init functions in discovery order: object file by object file, each
\* file's list in order, the discarded ones left out.
RECURSIVE Discovered(_, _)
Discovered(files, i) ==
  IF i > Len(files) THEN <<>>
  ELSE LET kept == SelectSeq(files[i], LAMBDA f : ~f.discarded)
       IN [j \in 1..Len(kept) |->
             [sym |-> getFunctionSymbol(i, kept[j].fn), priority |-> kept[j].priority]]
          \o Discovered(files, i + 1)

\* The place of the entry discovered i-th: after every entry of lower
\* priority and every earlier entry of the same priority.
PlaceOf(found, i) ==
  1 + Cardinality({j \in 1..Len(found) :
        \/ found[j].priority < found[i].priority
        \/ found[j].priority = found[i].priority /\ j < i})

\* C18: the body calls __wasm_init_memory iff passiveSegments, then
\* __wasm_apply_relocs iff PIC, then the init functions that are not
\* discarded in ascending priority, those of equal priority in discovery
\* order, and nothing else.
C18_CallCtorsOrder ==
  CtorsCreated =>
    LET cfg == writer.config
        found == Discovered(writer.files, 1)
        called == CalledBy(writer.body)
        first == (IF cfg.passiveSegments THEN <<InitMemoryIndex>> ELSE <<>>)
                 \o (IF cfg.isPic THEN <<ApplyRelocsIndex>> ELSE <<>>)
    IN /\ Len(called) = Len(first) + Len(found)
       /\ SubSeq(called, 1, Len(first)) = first
       /\ \A i \in 1..Len(found) :
            called[Len(first) + PlaceOf(found, i)] = found[i].sym
       /\ writer.body[Len(writer.body)] = Ins0(OPCODE_END)
       /\ Len(writer.body) = Len(called) + 1

C18_Witness ==
  /\ CtorsCreated
  /\ writer.config.passiveSegments /\ writer.config.isPic
  /\ Len(writer.files) = 2
  /\ CalledBy(writer.body) = <<0, 1, 4, 5, 6, 3>>

-----------------------------------------------------------------------------
(* The order of the output sections.                                       *)

SectionsAdded == writer.state = "sections"

PositionIn(seq, x) == CHOOSE k \in 1..Len(seq) : seq[k] = x

ModuleOrder ==
  <<"type", "import", "function", "table", "memory", "global", "event",
    "export", "elem", "datacount", "code", "data">>

CustomOrderAsStated ==
  <<"dylink", "user", "linking", "reloc", "name", "producers", "target_features">>

CustomOrderAfterData ==
  <<"user", "linking", "reloc", "name", "producers", "target_features">>

\* What a section of the list is: a section of `out` by its name, a reloc
\* section, or a custom section of the input.
ClassOf(sec) ==
  IF sec.type # "CUSTOM" \/ sec.name \in SectionNames THEN sec.name
  ELSE IF BeginsWith(sec.name, "reloc.") THEN "reloc"
  ELSE "user"

\* The sections of the list are in the order of `order`: no section comes
\* right after one of a later place.
ListedInOrder(order) ==
  \A k \in 1..(Len(writer.outputSections) - 1) :
    PositionIn(order, ClassOf(writer.outputSections[k]))
      <= PositionIn(order, ClassOf(writer.outputSections[k + 1]))

\* Every needed section of `out` and every custom section of the input is in
\* the list once, no section that is not needed is in it, and sectionIndex is
\* the position in the list, counted from 0.
NeededSectionsIndexed ==
  LET list == writer.outputSections
      named(n) == {k \in 1..Len(list) : list[k].name = n}
  IN /\ \A n \in SectionNames :
          Cardinality(named(n)) = IF n \in writer.plan.notNeeded THEN 0 ELSE 1
     /\ \A c \in 1..Len(writer.plan.customs) :
          Cardinality(named(writer.plan.customs[c].name)) = 1
     /\ \A k \in 1..Len(list) : list[k].needed /\ list[k].sectionIndex = k - 1

\* C19 as stated: dylink comes after the data section, as the first of the
\* custom sections.
C19_DylinkAfterData ==
  SectionsAdded =>
    ListedInOrder(ModuleOrder \o CustomOrderAsStated) /\ NeededSectionsIndexed

\* C19: the needed sections are listed in the order dylink, type, import,
\* function, table, memory, global, event, export, element, data-count, code,
\* data, user custom sections, linking, reloc.*, name, producers,
\* target_features; sectionIndex is the position in the list and no section
\* that is not needed is listed.
C19_DylinkFirst ==
  SectionsAdded =>
    ListedInOrder(<<"dylink">> \o ModuleOrder \o CustomOrderAfterData)
      /\ NeededSectionsIndexed

C19_Witness ==
  /\ SectionsAdded
  /\ writer.plan.notNeeded = {"event", "datacount"}
  /\ [k \in 1..Len(writer.outputSections) |-> writer.outputSections[k].name] =
       <<"dylink", "type", "import", "function", "table", "memory", "global",
         "export", "elem", "code", "data", "notes", ".debug_info", "linking",
         "reloc.CODE", "reloc.DATA", "reloc.notes", "reloc..debug_info", "name",
         "producers", "target_features">>
  /\ writer.outputSections[15].sectionIndex = 14

-----------------------------------------------------------------------------
(* The final commit.                                                       *)

\* C20: the output buffer is committed only in a run whose error count is
\* zero.
C20_CommitOnlyWithoutErrors ==
  writer.committed => writer.errorCount = 0

\* The output is committed after writeABI has reported an error.
C20_CommittedAfterAbiError ==
  /\ writer.state = "returned"
  /\ writer.committed
  /\ writer.in.abis = <<[json |-> "a", kind |-> "ok"]>>
  /\ writer.in.abiOutcome = "create fails"
  /\ writer.errorCount = 1

\* Up to writeABI, a run that has called error() does not go on: the states
\* from which the commit is reached have an error count of zero.
C20_NoErrorBeforeWriteABI ==
  writer.state \in {"linked", "opened", "sections written"} => writer.errorCount = 0

-----------------------------------------------------------------------------
(* Which dispatchers a run emits.                                          *)

\* run is past its calls of the two emitters, or has ended.
PastEmitters ==
  \/ writer.state \in {"returned", "exited"}
  \/ writer.state = "running" /\ writer.pc > 16

EntryRequested ==
  ~writer.config.otherModel /\ writer.config.entryIsUndefined

SyncCallRequested ==
  writer.config.hasCalls /\ writer.config.syncCallEntryIsUndefined

-----------------------------------------------------------------------------
(* The ABI list of a link.                                                 *)

RECURSIVE Flatten(_)
Flatten(seqs) == IF seqs = <<>> THEN <<>> ELSE Head(seqs) \o Flatten(Tail(seqs))

\* The live input segments of a file.
LiveSegmentsOf(file) == SelectSeq(file.segments, LAMBDA g : g.live)

\* The input segments that are in some output segment.
Planned ==
  UNION { {writer.segments[i].inputSegments[j] :
             j \in 1..Len(writer.segments[i].inputSegments)} :
          i \in 1..Len(writer.segments) }

\* C22 as stated: the ABI list holds an object's non-empty ABI once for each
\* live input segment of the object.
C22_AbiPerLiveSegment ==
  SegmentsMade =>
    writer.abis =
      Flatten([f \in 1..Len(writer.files) |->
                 IF writer.files[f].abi = "" THEN <<>>
                 ELSE [j \in 1..Len(LiveSegmentsOf(writer.files[f])) |->
                         writer.files[f].abi]])

\* C22: the ABI list holds the non-empty ABI of each object once, in object
\* order, whatever segments the object has, and no dead input segment is in
\* an output segment.
C22_AbiPerObject ==
  SegmentsMade =>
    /\ writer.abis =
         Flatten([f \in 1..Len(writer.files) |->
                    IF writer.files[f].abi = "" THEN <<>>
                    ELSE <<writer.files[f].abi>>])
    /\ \A g \in Planned : g.live

C22_Witness ==
  /\ SegmentsMade
  /\ Len(writer.files) = 2
  /\ writer.files[1].abi = "abiG"
  /\ Len(LiveSegmentsOf(writer.files[2])) = 2
  /\ writer.abis = <<"abiG", "abiA">>
  /\ Planned = {InSeg("a", ".data.foo", TRUE), InSeg("a", ".tdata.x", TRUE)}

-----------------------------------------------------------------------------
(* The ABI file.                                                           *)


Jsons(abis) == [k \in 1..Len(abis) |-> abis[k].json]

\* The merges of the events, in order.
MergesOf(events) ==
  LET merges == SelectSeq(events, LAMBDA ev : ev[1] = "merge")
  IN [k \in 1..Len(merges) |-> merges[k][2]]

Happened(ev) == \E k \in 1..Len(writer.events) : writer.events[k] = ev

Before(ev1, ev2) ==
  \E k, l \in 1..Len(writer.events) :
    k < l /\ writer.events[k] = ev1 /\ writer.events[l] = ev2

\* No entry of the list makes parse or merge throw.
AllAccepted(abis) == \A k \in 1..Len(abis) : abis[k].kind = "ok"

\* C23 as stated: with an empty list nothing is merged or created; otherwise
\* the merger is seeded with the last ABI, every entry is merged once in
\* list order, and the .abi file is committed before the output is.
C23_AlwaysMergedAndWritten ==
  writer.committed =>
    IF writer.in.abis = <<>>
    THEN writer.events = << <<"commit", ".wasm">> >>
    ELSE /\ writer.events[1] = <<"seed", writer.in.abis[Len(writer.in.abis)].json>>
         /\ MergesOf(writer.events) = Jsons(writer.in.abis)
         /\ Before(<<"commit", ".abi">>, <<"commit", ".wasm">>)

\* C23: with an empty list nothing is merged or created.  Otherwise, when
\* every entry parses and merges and the .abi buffer is created and commits,
\* the merger is seeded with the last ABI, every entry is merged once in
\* list order, and the .abi file is committed before the output is.  When an
\* entry does not parse, or the .abi buffer cannot be created, no .abi file
\* is written and the output is still committed; the merges made are those
\* of the entries before the first unparsable one, none if the seed does not
\* parse.  The output is never committed before the .abi file.
C23_MergedAndWrittenUnlessFailed ==
  writer.committed =>
    LET abis == writer.in.abis
        merges == MergesOf(writer.events)
    IN /\ abis = <<>> => writer.events = << <<"commit", ".wasm">> >>
       /\ abis # <<>> /\ AllAccepted(abis) /\ writer.in.abiOutcome = "written" =>
            /\ writer.events[1] = <<"seed", abis[Len(abis)].json>>
            /\ merges = Jsons(abis)
            /\ Before(<<"commit", ".abi">>, <<"commit", ".wasm">>)
       /\ abis # <<>> /\ ~(AllAccepted(abis) /\ writer.in.abiOutcome = "written") =>
            /\ ~Happened(<<"commit", ".abi">>)
            /\ merges = SubSeq(Jsons(abis), 1, Len(merges))
            /\ Len(merges) < Len(abis) =>
                 abis[Len(merges) + 1].kind = "unparsable"
                   \/ abis[Len(abis)].kind = "unparsable"
       /\ ~Before(<<"commit", ".wasm">>, <<"commit", ".abi">>)

C23_Witness ==
  /\ writer.committed
  /\ writer.events =
       << <<"seed", "b">>, <<"merge", "a">>, <<"merge", "b">>,
          <<"create", ".abi">>, <<"write", ".abi">>, <<"commit", ".abi">>,
          <<"commit", ".wasm">> >>

-----------------------------------------------------------------------------
(* The byte ranges of the output sections.                                 *)

Finalized == writer.state = "writing"

RECURSIVE SizesBefore(_, _)
SizesBefore(sections, i) ==
  IF i <= 1 THEN 0 ELSE sections[i - 1].size + SizesBefore(sections, i - 1)

RangeOf(sec) == sec.offset..(sec.offset + sec.size - 1)

\* C24: after createHeader and finalizeSections each section's offset is the
\* header size plus the sizes of the sections before it; the ranges of the
\* sections are pairwise disjoint, disjoint from the header and end at
\* fileSize; and in every interleaving of the writes each byte of the buffer
\* is written by at most one section, inside the buffer.
C24_SectionRangesDisjoint ==
  Finalized =>
    LET secs == writer.outputSections
    IN /\ \A i \in 1..Len(secs) :
            secs[i].offset = HeaderSize + SizesBefore(secs, i)
       /\ \A i, j \in 1..Len(secs) :
            i # j => RangeOf(secs[i]) \cap RangeOf(secs[j]) = {}
       /\ \A i \in 1..Len(secs) : RangeOf(secs[i]) \cap (0..(HeaderSize - 1)) = {}
       /\ writer.fileSize = HeaderSize + SizesBefore(secs, Len(secs) + 1)
       /\ DOMAIN writer.buffer = 0..(writer.fileSize - 1)
       /\ \A b \in DOMAIN writer.buffer : Cardinality(writer.buffer[b]) <= 1

C24_Witness ==
  /\ Finalized
  /\ Len(writer.outputSections) = 3
  /\ writer.outputSections[2] = [size |-> 0, offset |-> 10]
  /\ writer.outputSections[3] = [size |-> 2, offset |-> 10]
  /\ writer.done = <<1, 0, 2>>
  /\ writer.buffer[8] = {1} /\ writer.buffer[9] = {} /\ writer.buffer[11] = {3}

-----------------------------------------------------------------------------
(* The order of the steps of a run.                                        *)

\* The places of the log where one of the steps was taken.
PlacesOf(steps) == {k \in 1..Len(writer.log) : writer.log[k] \in steps}

\* Every step of `later` in the log comes after a step `first` in the log.
Precedes(first, later) ==
  \A l \in PlacesOf(later) : \E k \in PlacesOf({first}) : k < l

\* No step of `later` in the log is followed by a step of `earlier`.
NeverAfter(earlier, later) ==
  \A k \in PlacesOf(later), l \in PlacesOf(earlier) : l < k

IndexSteps == {"addFunction", "addGlobal", "addEvent"}

\* The bodies that encode a function or global index.
IndexBodies ==
  {"createCallCtorsFunction", "createInitMemoryFunction", "createInitTLSFunction",
   "createDispatchFunction", "createCallDispatchFunction"}

\* The bodies that encode an address of the layout, and the start/stop
\* symbols.
AddressSteps ==
  {"addStartStopSymbols", "createInitMemoryFunction", "createInitTLSFunction",
   "createApplyRelocationsFunction", "createDispatchFunction",
   "createCallDispatchFunction"}

\* C25: the import section is sealed before any index is assigned and no
\* import is added after the sealing; the indexes are all assigned before a
\* body that encodes an index is emitted; the memory layout is done before
\* the start/stop symbols are added and before a body that encodes an
\* address is emitted.
C25_SealedAssignedLaidOutFirst ==
  writer.state # "none" =>
    /\ Precedes("importSec->seal", IndexSteps)
    /\ NeverAfter({"addImport"}, {"importSec->seal"})
    /\ Precedes("addEvent", IndexBodies)
    /\ NeverAfter(IndexSteps, IndexBodies)
    /\ Precedes("layoutMemory", AddressSteps)
    /\ NeverAfter({"layoutMemory"}, AddressSteps)

C25_Witness ==
  /\ writer.state = "returned"
  /\ PlacesOf({"commit"}) # {}
  /\ PlacesOf({"addImport"}) = {5}
  /\ PlacesOf({"importSec->seal"}) = {9}
  /\ \A f \in IndexBodies \cup AddressSteps : PlacesOf({f}) # {}

-----------------------------------------------------------------------------
(* The order of the components in a run.                                   *)

\* The component a step belongs to, 0 for a step the component design
\* gives to none of C1..C10.
ComponentOf(step) ==
  CASE step = "createOutputSegments" -> 1
    [] step = "layoutMemory" -> 2
    [] step \in {"importSec->seal", "addFunction", "addGlobal", "addEvent"} -> 3
    [] step = "populateTargetFeatures" -> 4
    [] step \in {"addImport", "calculateTypes", "calculateExports"} -> 5
    [] step \in {"createInitMemoryFunction", "createApplyRelocationsFunction",
                 "createCallCtorsFunction", "createInitTLSFunction"} -> 6
    [] step \in {"createDispatchFunction", "createCallDispatchFunction"} -> 7
    [] step \in {"addSections", "finalizeSections"} -> 8
    [] step = "calculateCustomSections" -> 9
    [] step \in {"createHeader", "openFile", "writeHeader", "writeSections",
                 "writeABI", "commit"} -> 10
    [] OTHER -> 0

\* The place of a component in C1, C2, C3, (C4, C5), (C6, C7), C8, C9, C10.
StageAsStated(c) ==
  CASE c \in {4, 5} -> 4
    [] c \in {6, 7} -> 6
    [] OTHER -> c

\* The place of a step in the order Writer::run takes: C1, C4, the imports
\* of C5, C2, C3, C6, C7, the types and exports of C5, calculateCustomSections
\* of C9, addSections of C8, createHeader of C10, finalizeSections of C8, the
\* rest of C10.
StageInRun(step) ==
  CASE ComponentOf(step) = 1 -> 1
    [] ComponentOf(step) = 4 -> 2
    [] step = "addImport" -> 3
    [] ComponentOf(step) = 2 -> 4
    [] ComponentOf(step) = 3 -> 5
    [] ComponentOf(step) = 6 -> 6
    [] ComponentOf(step) = 7 -> 7
    [] step \in {"calculateTypes", "calculateExports"} -> 8
    [] ComponentOf(step) = 9 -> 9
    [] step = "addSections" -> 10
    [] step = "createHeader" -> 11
    [] step = "finalizeSections" -> 12
    [] ComponentOf(step) = 10 -> 13
    [] OTHER -> 0

\* C26 as stated: no step of a later component of C1, C2, C3, (C4, C5),
\* (C6, C7), C8, C9, C10 runs before a step of an earlier one.
C26_ComponentsInStatedOrder ==
  LET stage == [k \in 1..Len(writer.log) |->
                  StageAsStated(ComponentOf(writer.log[k]))]
  IN  \A k, l \in 1..Len(writer.log) :
        k < l /\ stage[k] # 0 /\ stage[l] # 0 => stage[k] <= stage[l]

\* C26: the steps run in the order C1, C4, imports of C5, C2, C3, C6, C7,
\* types and exports of C5, calculateCustomSections of C9, addSections of C8,
\* createHeader of C10, finalizeSections of C8, rest of C10.
C26_ComponentsInRunOrder ==
  LET stage == [k \in 1..Len(writer.log) |-> StageInRun(writer.log[k])]
  IN  \A k, l \in 1..Len(writer.log) :
        k < l /\ stage[k] # 0 /\ stage[l] # 0 => stage[k] <= stage[l]

C26_Witness ==
  /\ writer.state = "returned"
  /\ {StageInRun(writer.log[k]) : k \in 1..Len(writer.log)} = 0..13
  /\ ComponentOf(writer.log[4]) = 4
  /\ ComponentOf(writer.log[6]) = 2

----------------------------------------------------------------------------
(* C27 *)

\* The link has both __wasm_call_ctors and __cxa_finalize.
CtorsAndFinalizePresent ==
  /\ symtab_find("__wasm_call_ctors") # NoSym
  /\ symtab_find("__cxa_finalize") # NoSym

\* The places of the calls to a function in the run.
CallPlaces(name) == {j \in 1..Len(RunCalls) : RunCalls[j][1] = name}

\* C27: with __wasm_call_ctors and __cxa_finalize both present, every run of
\* an emitted dispatcher that reaches the end of the function or returns has
\* called __wasm_call_ctors exactly once, before any handler, and
\* __cxa_finalize(NULL) exactly once, after the handler; this includes apply
\* with pre_dispatch returning zero and sync_call returning -10000 or -10001.
C27_CtorsAndFinalizeOnEveryPath ==
  (/\ vm.fn \in {"apply", "sync_call"}
   /\ CtorsAndFinalizePresent
   /\ vm.result.status = "returned") =>
    /\ TimesCalled("__wasm_call_ctors") = 1
    /\ \A j \in CallPlaces("__wasm_call_ctors") : \A h \in HandlerCalls : j < h
    /\ TimesCalled("__cxa_finalize") = 1
    /\ Called("__cxa_finalize", <<0>>)
    /\ \A j \in CallPlaces("__cxa_finalize") : \A h \in HandlerCalls : h < j

\* The part of C27 about __wasm_call_ctors.
C27_CtorsOnceBeforeHandlers ==
  (/\ vm.fn \in {"apply", "sync_call"}
   /\ CtorsAndFinalizePresent
   /\ vm.result.status = "returned") =>
    /\ TimesCalled("__wasm_call_ctors") = 1
    /\ \A j \in CallPlaces("__wasm_call_ctors") : \A h \in HandlerCalls : j < h

\* In a well-nested body __cxa_finalize is called at most once, with NULL
\* and after the handlers, and it is called in a run that returns exactly
\* when the run is an apply in which pre_dispatch is absent or returned
\* non-zero, or a sync_call that returns 0.
C27_FinalizeOnlyOnTheLastPath ==
  (/\ vm.fn \in {"apply", "sync_call"}
   /\ CtorsAndFinalizePresent
   /\ WellNested(IF vm.fn = "apply" THEN entryBody ELSE syncCallBody)
   /\ vm.result.status = "returned") =>
    /\ \A j \in CallPlaces("__cxa_finalize") :
         /\ RunCalls[j][2] = <<0>>
         /\ \A h \in HandlerCalls : h < j
    /\ TimesCalled("__cxa_finalize") =
         IF vm.fn = "apply"
         THEN (IF vm.env.pre_ret = 0 THEN 0 ELSE 1)
         ELSE (IF vm.result.ret = <<SYNC_CALL_EXECUTED>> THEN 1 ELSE 0)

\* An apply that returns without calling __cxa_finalize: pre_dispatch
\* returned zero.
C27_ApplyReturnsUnfinalized ==
  /\ IsApply
  /\ CtorsAndFinalizePresent
  /\ ~stackCanary
  /\ vm.env.pre_ret = 0
  /\ vm.result.status = "returned"
  /\ TimesCalled("__wasm_call_ctors") = 1
  /\ TimesCalled("__cxa_finalize") = 0

\* A sync_call that returns -10000 or -10001 without calling __cxa_finalize.
C27_SyncCallReturnsUnfinalized ==
  /\ vm.fn = "sync_call"
  /\ CtorsAndFinalizePresent
  /\ vm.result.status = "returned"
  /\ vm.result.ret \in {<<SYNC_CALL_UNSUPPORTED_HEADER_VERSION>>,
                        <<SYNC_CALL_UNKNOWN_FUNCTION>>}
  /\ TimesCalled("__cxa_finalize") = 0

----------------------------------------------------------------------------
(* C28 *)

\* C28, for the action/notification dispatcher: requesting it when no object
\* file declares an action makes the link die with a fatal error, and the
\* fatal error is raised only then.  (Where only createDispatchFunction can
\* be requested, phase "fatal" is its fatal error.)
C28_DispatcherFatalIffNoActions ==
  /\ entryBody # <<>> => ActionDecls # <<>>
  /\ phase = "fatal" => ActionDecls = <<>>

\* The dispatcher was emitted for a link that declares no action.
C28_EmittedWithoutActions ==
  /\ phase = "emit"
  /\ entryBody # <<>>
  /\ ActionDecls = <<>>
  /\ NotifyDecls = <<>>

\* The link died in createDispatchFunction although actions are declared and
\* the canary is off: eosio_assert_code is missing.
C28_FatalWithActions ==
  /\ phase = "fatal"
  /\ ActionDecls # <<>>
  /\ ~stackCanary
  /\ symtab_find("eosio_assert_code") = NoSym

\* The fatal errors of createDispatchFunction are raised exactly when
\* eosio_assert_code is missing or its index is not below the number of
\* symbols, or when the canary is on and current_time is missing.
C28_FatalIffAssertOrTimeMissing ==
  /\ phase = "fatal" =>
       \/ symtab_find("eosio_assert_code") = NoSym
       \/ getFunctionIndex("eosio_assert_code") >= getSymbolsSize
       \/ (stackCanary /\ symtab_find("current_time") = NoSym)
  /\ entryBody # <<>> =>
       /\ symtab_find("eosio_assert_code") # NoSym
       /\ stackCanary => symtab_find("current_time") # NoSym

\* C28, for the sync_call dispatcher: requested with no registered call it
\* leaves no body, the link dies.
C28_CallDispatcherDiesWithoutCalls ==
  /\ syncCallBody # <<>> => CallDecls # <<>>
  /\ phase = "fatal" =>
       \/ CallDecls = <<>>
       \/ (stackCanary /\ symtab_find("current_time") = NoSym)

\* The sync_call dispatcher was requested with no registered call.
C28_CallDispatcherDied ==
  /\ phase = "fatal"
  /\ CallDecls = <<>>
  /\ ~stackCanary

----------------------------------------------------------------------------
(* C29 *)

\* The values memoryPtr took never decrease.
MemoryPtrNeverDecreases ==
  \A k \in 1..(Len(layout.ptrs) - 1) : ~Less32(layout.ptrs[k + 1], layout.ptrs[k])

\* C29: throughout layoutMemory the 32-bit memoryPtr never decreases: after
\* the stack placement, after each segment's alignment and size advance and
\* after the initialMemory adjustment its value is at least its previous
\* value, for all representable globalBase, zStackSize, initialMemory and
\* segment sizes and alignments.
C29_MemoryPtrMonotone ==
  LaidOut => MemoryPtrNeverDecreases

\* memoryPtr never decreases when globalBase and zStackSize are below
\* 0xFFFF0000 (with the segments considered, no sum reaches 2^32).
C29_MemoryPtrMonotoneBelowWrap ==
  (/\ LaidOut
   /\ layout.config.globalBase[1] < Limb - 1
   /\ layout.config.zStackSize[1] < Limb - 1) => MemoryPtrNeverDecreases

\* The stack of 0xFFFFFFF0 bytes placed after the data of a link with
\* globalBase 1024 and no segment: memoryPtr goes from 1024 to 1008.
C29_StackWraps ==
  /\ LaidOut
  /\ ~layout.config.stackFirst
  /\ layout.config.globalBase = U32(1024)
  /\ layout.config.zStackSize = High32(65520)
  /\ layout.segments = <<>>
  /\ layout.ptrs[2] = U32(1024)
  /\ layout.ptrs[3] = U32(1008)

----------------------------------------------------------------------------
(* C30 *)

TimeIndex == getFunctionIndex("current_time")

\* The dispatcher bodies emitted so far.
EmittedBodies == {entryBody, syncCallBody} \ {<<>>}

\* The instruction of the canary prologue that calls current_time: the one
\* before SET_GLOBAL __stack_canary.
TimeCallPlace(body) ==
  CHOOSE i \in 1..(Len(body) - 1) : body[i + 1][1] = OPCODE_SET_GLOBAL

\* The bytes of the call and of the two instructions after it.
TimeCallBytes(body) ==
  LET p == TimeCallPlace(body)
  IN Flatten([k \in 1..3 |-> <<body[p + k - 1][1]>> \o body[p + k - 1][2]])

\* The ULEB128 a decoder reads from position `from` on: up to the first byte
\* without the continuation bit.
ReadUleb128(bytes, from) ==
  LET last == CHOOSE k \in from..Len(bytes) :
                /\ bytes[k] < 128
                /\ \A j \in from..(k - 1) : bytes[j] >= 128
  IN SubSeq(bytes, from, last)

\* The function index a decoder reads after the CALL opcode.
DecodedTimeIndex(body) == DecodeULEB128(ReadUleb128(TimeCallBytes(body), 2))

\* The immediate is one byte, the index modulo 256, and it is the ULEB128 of
\* the index exactly when the index is below 128.
TimeIndexIsOneByte(body) ==
  LET call == body[TimeCallPlace(body)]
  IN /\ call[1] = OPCODE_CALL
     /\ call[2] = <<TimeIndex % 256>>
     /\ call[2] = EncodeULEB128(TimeIndex) <=> TimeIndex < 128

\* C30 as stated: in the canary prologue of both dispatchers the immediate of
\* the call to current_time is a single byte holding the index modulo 256;
\* the bytes are the ULEB128 of the index iff the index is below 128, and for
\* an index >= 128 the body is malformed (the byte written does not end an
\* immediate).
C30_MalformedFrom128 ==
  \A body \in EmittedBodies :
    /\ TimeIndexIsOneByte(body)
    /\ TimeIndex >= 128 => ~LebComplete(body[TimeCallPlace(body)][2])

\* C30: the immediate is a single byte holding the index modulo 256, the
\* ULEB128 of the index iff the index is below 128; for an index >= 128 the
\* call decoded is never the call of current_time: when the byte is below 128
\* it is a complete immediate, the call of function index mod 256, and when
\* it is 128 or more the immediate runs on into the SET_GLOBAL opcode and the
\* call is of function 128 * SET_GLOBAL + (index mod 256) - 128.
C30_WrongFunctionFrom128 ==
  \A body \in EmittedBodies :
    /\ TimeIndexIsOneByte(body)
    /\ TimeIndex >= 128 =>
         /\ DecodedTimeIndex(body) # TimeIndex
         /\ LebComplete(body[TimeCallPlace(body)][2]) <=> TimeIndex % 256 < 128
         /\ DecodedTimeIndex(body) =
              IF TimeIndex % 256 < 128 THEN TimeIndex % 256
              ELSE 128 * OPCODE_SET_GLOBAL + (TimeIndex % 256) - 128

\* Both dispatchers emitted in a link where current_time has index 302: the
\* byte written is 46, a complete immediate.
C30_Witness ==
  /\ entryBody # <<>>
  /\ syncCallBody # <<>>
  /\ TimeIndex = 302
  /\ DecodedTimeIndex(entryBody) = 46
  /\ DecodedTimeIndex(syncCallBody) = 46

\* Both dispatchers emitted in a link where current_time has index 200: the
\* byte written has the continuation bit.
C30_ContinuedImmediate ==
  /\ entryBody # <<>>
  /\ syncCallBody # <<>>
  /\ TimeIndex = 200
  /\ DecodedTimeIndex(entryBody) = 128 * OPCODE_SET_GLOBAL + 72

====
